---- MODULE Spec2Model ----
(***************************************************************************)
(* Model of the workflow engine of vibe-workflow:                          *)
(*   - loadAndFlattenWorkflow / workflow-execute (src/src/index.ts)        *)
(*   - workflow-run (src/src/tools/workflow-run.ts)                        *)
(* One handler invocation runs at a time (files, heap and the variables    *)
(* from stack to result); the Set objects of all invocations live on the   *)
(* one heap of the process.                                                *)
(*                                                                         *)
(* JavaScript values are modelled as TLA+ functions with string keys:      *)
(*   an object  {k: v, ...}   is the record [k |-> v, ...]                 *)
(*   an array   [x, y]        is [array |-> <<x, y>>]                      *)
(*   undefined / null         are [js |-> "undefined"] / [js |-> "null"]   *)
(*   a free text (a description, a tool name, a template, a data value)    *)
(*   is [str |-> <<...>>]; the texts of a definition name the place they   *)
(*   are written at, so that no two steps of a store are equal             *)
(* Workflow names and step types are plain strings.                        *)
(***************************************************************************)
EXTENDS Integers, Sequences, FiniteSets, TLC

VARIABLES
    files,      \* the project directory: path -> file content
    heap,       \* the Set objects allocated by the running resolution
    stack,      \* activation records of loadAndFlattenWorkflow, top last
    pc,         \* position of the current handler
    req,        \* arguments of the current handler call
    thrown,     \* the exception travelling to the handler's catch block
    resolved,   \* value returned by the outermost loadAndFlattenWorkflow
    result,     \* what the handler returned to its caller
    log,        \* the calls answered so far, as their callers saw them
    parked      \* handler invocations suspended at an await, not running

vars == <<files, heap, stack, pc, req, thrown, resolved, result, log, parked>>

(***************************************************************************)
(* Bounds and input sets                                                   *)
(***************************************************************************)
\* total number of steps written in the .json definitions of one store
MaxTotalSteps == 4

\* the same, for the stores that also hold malformed files
MaxBadStoreSteps == 2

WorkflowNames == {"a", "b", "c"}

\* the workflow-execute request is made for this name; the stores range over
\* every assignment of definitions to names, so fixing the root loses no case
RootNames == {"a"}

\* the recursion of a correct resolver is at most one frame deeper than the
\* number of workflows; the guard of CallStep stops a runaway recursion here
MaxDepth == Cardinality(WorkflowNames) + 2

(***************************************************************************)
(* JavaScript values                                                       *)
(***************************************************************************)
Undefined == [js |-> "undefined"]
JsonNull == [js |-> "null"]
\* the object {} is the function with no key
EmptyObject == << >>

Array(seq) == [array |-> seq]

\* a free text, given by its parts
Str(parts) == [str |-> parts]

\* Array.isArray(v)
IsArray(v) == DOMAIN v = {"array"}

\* JS truthiness of the values a definition can hold in `steps`
Truthy(v) == v # Undefined /\ v # JsonNull

\* obj.field on an object (a missing property reads as undefined)
Get(obj, field) == IF field \in DOMAIN obj THEN obj[field] ELSE Undefined

\* reading a property of null or undefined throws a TypeError
Nullish(v) == v = Undefined \/ v = JsonNull

(***************************************************************************)
(* Files: fs.readFile and JSON.parse                                       *)
(***************************************************************************)
NoFile == [file |-> "absent"]
Garbage == [text |-> "garbage"]

\* the JSON text of value v (JSON.stringify of a defined value); key order
\* and white space are not modelled
JsonText(v) == [text |-> "json", value |-> v]

\* path of a definition: `${projectPath}/.workflow/${name}.${ext}`
FileName(name, ext) == <<name, ext>>

Paths == WorkflowNames \X {"json", "md"}

\* JSON.parse(content): the value, or a SyntaxError
ParseOk(content) == content.text = "json"
JSONParse(content) == content.value

(***************************************************************************)
(* Errors thrown inside the handlers                                       *)
(***************************************************************************)
\* `Circular workflow dependency detected: ${workflowName}`
CircularError(workflowName) ==
    [kind |-> "CircularDependency", workflow |-> workflowName]
\* `Invalid workflow '${workflowName}': missing or invalid steps array`
InvalidError(workflowName) ==
    [kind |-> "InvalidDefinition", workflow |-> workflowName]
\* readFile rejects with ENOENT for the path of workflowName
NotFoundError(workflowName) ==
    [kind |-> "NotFound", workflow |-> workflowName]
\* JSON.parse throws a SyntaxError
ParseError == [kind |-> "ParseError"]
\* a property read of null / undefined
TypeError == [kind |-> "TypeError"]

(***************************************************************************)
(* Workflow definitions of a store                                         *)
(***************************************************************************)
\* what may be written at one position of a steps array: a leaf step, or a
\* workflow-type step that references one of the names
SlotChoices == {"leaf"} \cup WorkflowNames

\* the step written at position i of workflow w.  Leaves alternate between a
\* prompt step with a template and an mcp step without description; every
\* text names its position, so no two steps of a store are equal.
StepAt(w, i, choice) ==
    IF choice = "leaf"
    THEN IF i % 2 = 1
         THEN [type |-> "prompt", template |-> Str(<<"template", w, i>>)]
         ELSE [type |-> "mcp", tool |-> Str(<<"tool", w, i>>)]
    ELSE [type |-> "workflow", workflow |-> choice,
          description |-> Str(<<"description", w, i>>)]

\* a definition without a steps field
HeaderOf(w) ==
    [name |-> w, description |-> Str(<<"description", w>>),
     expectedOutputs |-> Array(<<Str(<<"output", w>>)>>)]

\* the definition of w whose steps are given by the sequence of choices
DefinitionOf(w, shape) ==
    [steps |-> Array([i \in 1..Len(shape) |-> StepAt(w, i, shape[i])])]
        @@ HeaderOf(w)

\* the contents a definition file can have besides a well-formed definition:
\* no file, text that is not JSON, the JSON value null, an object without
\* steps, an object whose steps is not an array
BadContents(w) ==
    { NoFile, Garbage, JsonText(JsonNull), JsonText(HeaderOf(w)),
      JsonText([steps |-> EmptyObject] @@ HeaderOf(w)) }

ShapesUpTo(n) == UNION { [1..k -> SlotChoices] : k \in 0..n }

\* the contents of the definition file of w: a content of the set bad, or a
\* well-formed definition of at most n steps
ContentsUpTo(w, n, bad) ==
    bad \cup { JsonText(DefinitionOf(w, sh)) : sh \in ShapesUpTo(n) }

\* number of steps written in a file content
StepCount(content) ==
    IF content \in {NoFile, Garbage} THEN 0
    ELSE IF Nullish(content.value) THEN 0
    ELSE IF IsArray(Get(content.value, "steps"))
         THEN Len(content.value.steps.array)
         ELSE 0

\* the store that holds these contents in a.json, b.json and c.json
StoreOf(ca, cb, cc) ==
    [p \in Paths |->
        IF p[2] # "json" THEN NoFile
        ELSE IF p[1] = "a" THEN ca
        ELSE IF p[1] = "b" THEN cb ELSE cc]

\* what a file of w holds when it holds no well-formed definition: it is
\* missing, or (when malformed files are admitted) any of BadContents
BadFor(w, malformed) == IF malformed THEN BadContents(w) ELSE {NoFile}

\* files is a store of .json definitions with at most n steps in all
IsJsonStore(n, malformed) ==
    \E ca \in ContentsUpTo("a", n, BadFor("a", malformed)) :
    \E cb \in ContentsUpTo("b", n - StepCount(ca), BadFor("b", malformed)) :
    \E cc \in ContentsUpTo("c", n - StepCount(ca) - StepCount(cb),
                           BadFor("c", malformed)) :
        files = StoreOf(ca, cb, cc)

\* a read that answers from the store as it was at the first call
ReadFileCached(path) == IF log # << >> THEN log[1].files[path] ELSE files[path]

\* readFile(fileName): the content the file has when it is read
ReadFile(path) == files[path]

(***************************************************************************)
(* Initial state: a store of .json definitions, no handler running         *)
(***************************************************************************)
Idle ==
    /\ heap = << >>
    /\ stack = << >>
    /\ pc = "idle"
    /\ req = Undefined
    /\ thrown = Undefined
    /\ resolved = Undefined
    /\ result = Undefined
    /\ log = << >>
    /\ parked = << >>

\* stores of well-formed definitions, some of them missing
Init ==
    /\ IsJsonStore(MaxTotalSteps, FALSE)
    /\ Idle

\* stores in which a file may also be malformed in any of the ways above
InitAnyStore ==
    /\ IsJsonStore(MaxBadStoreSteps, TRUE)
    /\ Idle

(***************************************************************************)
(* loadAndFlattenWorkflow: the pieces of its body                          *)
(***************************************************************************)
\* a membership test that never finds the name
SetHasNever(set, workflowName) == FALSE

\* visited.has(workflowName)
SetHas(set, workflowName) == workflowName \in set

\* visited.add(workflowName): the Set object v of heap h is changed in place
SetAdd(h, v, workflowName) == [h EXCEPT ![v] = @ \cup {workflowName}]

\* a call that hands its own Set object to the callee instead of a copy
NewSetShared(h, v) == [heap |-> h, ref |-> v]

\* one Set object made when the function is defined and used as the default
\* of every call
NewVisitedOnce(h) ==
    IF h = << >> THEN [heap |-> << {} >>, ref |-> 1] ELSE [heap |-> h, ref |-> 1]

\* the default argument visited = new Set(): evaluated at each call that
\* leaves the argument out, it allocates a fresh empty Set object
NewVisited(h) == [heap |-> Append(h, {}), ref |-> Len(h) + 1]

\* new Set(visited): a fresh Set object holding a copy of the elements of v;
\* the new heap and the reference to the new object
NewSet(h, v) == [heap |-> Append(h, h[v]), ref |-> Len(h) + 1]

\* step.type === 'workflow'
IsWorkflowStep(step) == "type" \in DOMAIN step /\ step.type = "workflow"

\* !workflow.steps || !Array.isArray(workflow.steps)
StepsInvalid(workflow) ==
    \/ ~Truthy(Get(workflow, "steps"))
    \/ ~IsArray(Get(workflow, "steps"))

\* { ...step, _sourceWorkflow: workflowName }
TagLeaf(step, workflowName) == [_sourceWorkflow |-> workflowName] @@ step

\* a tag that leaves the description of the inlining step out
TagSplicedNoParent(s, step) == [_sourceWorkflow |-> step.workflow] @@ s

\* { ...s, _sourceWorkflow: step.workflow, _parentDescription: step.description }
TagSpliced(s, step) ==
    [_sourceWorkflow |-> step.workflow,
     _parentDescription |-> Get(step, "description")] @@ s

\* a splice that puts the inlined steps in front of the steps pushed so far
SplicePrepend(flattenedSteps, sub, step) ==
    [k \in 1..Len(sub) |-> TagSpliced(sub[k], step)] \o flattenedSteps

\* flattenedSteps.push(...subWorkflow.flattenedSteps.map(s => ...))
Splice(flattenedSteps, sub, step) ==
    flattenedSteps \o [k \in 1..Len(sub) |-> TagSpliced(sub[k], step)]

\* the value of the return statement
ReturnValue(workflow, flattenedSteps) ==
    [name |-> Get(workflow, "name"),
     description |-> Get(workflow, "description"),
     expectedOutputs |-> Get(workflow, "expectedOutputs"),
     flattenedSteps |-> flattenedSteps]

\* a new activation of loadAndFlattenWorkflow(workflowName, _, visited)
Frame(workflowName, visited) ==
    [workflowName |-> workflowName, visited |-> visited, at |-> "enter",
     workflow |-> Undefined, i |-> 1, flattenedSteps |-> << >>]

Top == stack[Len(stack)]
SetTop(frame) == [stack EXCEPT ![Len(stack)] = frame]
Steps(frame) == frame.workflow.steps.array

\* an exception that hands the steps flattened so far to the handler
ThrowPartial(error) ==
    /\ stack' = << >>
    /\ thrown' = error
    /\ pc' = "catch"
    /\ resolved' = ReturnValue(stack[1].workflow, stack[1].flattenedSteps)
    /\ UNCHANGED <<files, req, result, log, parked>>

\* an exception leaves every activation (none has a try block) and reaches
\* the catch block of the handler
Throw(error) ==
    /\ stack' = << >>
    /\ thrown' = error
    /\ pc' = "catch"
    /\ UNCHANGED <<files, req, resolved, result, log, parked>>

(***************************************************************************)
(* workflow-execute: the handler and the resolution it awaits              *)
(***************************************************************************)
\* the handler is invoked: loadAndFlattenWorkflow(name, projectPath) with
\* the default argument visited = new Set()
ExecuteCall(name, inputs) ==
    /\ pc = "idle"
    /\ req' = [op |-> "workflow-execute", name |-> name, inputs |-> inputs]
    /\ LET visited == NewVisited(heap) IN
       /\ heap' = visited.heap
       /\ stack' = << Frame(name, visited.ref) >>
    /\ pc' = "resolving"
    /\ UNCHANGED <<files, thrown, resolved, result, log, parked>>

\* lines 70-75: the cycle check and visited.add
Enter ==
    /\ pc = "resolving" /\ stack # << >> /\ Top.at = "enter"
    /\ IF SetHas(heap[Top.visited], Top.workflowName)
       THEN /\ Throw(CircularError(Top.workflowName))
            /\ UNCHANGED heap
       ELSE /\ heap' = SetAdd(heap, Top.visited, Top.workflowName)
            /\ stack' = SetTop([Top EXCEPT !.at = "read"])
            /\ UNCHANGED <<files, pc, req, thrown, resolved, result, log, parked>>

\* lines 76-83: the read completes, the content is parsed and validated
Read ==
    /\ pc = "resolving" /\ stack # << >> /\ Top.at = "read"
    /\ LET content == ReadFile(FileName(Top.workflowName, "json")) IN
       IF content = NoFile
       THEN Throw(NotFoundError(Top.workflowName)) /\ UNCHANGED heap
       ELSE IF ~ParseOk(content)
       THEN Throw(ParseError) /\ UNCHANGED heap
       ELSE IF Nullish(JSONParse(content))
       THEN Throw(TypeError) /\ UNCHANGED heap
       ELSE IF StepsInvalid(JSONParse(content))
       THEN Throw(InvalidError(Top.workflowName)) /\ UNCHANGED heap
       ELSE /\ stack' = SetTop([Top EXCEPT !.workflow = JSONParse(content),
                                           !.i = 1, !.at = "loop"])
            /\ UNCHANGED <<files, heap, pc, req, thrown, resolved, result, log, parked>>

\* lines 94-100: a step that is not of type 'workflow' is pushed
LeafStep ==
    /\ pc = "resolving" /\ stack # << >> /\ Top.at = "loop"
    /\ Top.i <= Len(Steps(Top))
    /\ LET step == Steps(Top)[Top.i] IN
       /\ ~IsWorkflowStep(step)
       /\ stack' = SetTop([Top EXCEPT
              !.flattenedSteps = Append(@, TagLeaf(step, Top.workflowName)),
              !.i = @ + 1])
    /\ UNCHANGED <<files, heap, pc, req, thrown, resolved, result, log, parked>>

\* line 88: the recursive call with a copy of the visited set
CallStep ==
    /\ pc = "resolving" /\ stack # << >> /\ Top.at = "loop"
    /\ Top.i <= Len(Steps(Top))
    /\ Len(stack) < MaxDepth
    /\ LET step == Steps(Top)[Top.i]
           new == NewSet(heap, Top.visited)
       IN  /\ IsWorkflowStep(step)
           /\ heap' = new.heap
           /\ stack' = Append(SetTop([Top EXCEPT !.at = "await"]),
                              Frame(step.workflow, new.ref))
    /\ UNCHANGED <<files, pc, req, thrown, resolved, result, log, parked>>

\* lines 103-108 and, in the caller, lines 89-93: the activation returns;
\* its caller splices the returned steps and goes on with its next step
Return ==
    /\ pc = "resolving" /\ stack # << >> /\ Top.at = "loop"
    /\ Top.i > Len(Steps(Top))
    /\ LET value == ReturnValue(Top.workflow, Top.flattenedSteps) IN
       IF Len(stack) = 1
       THEN /\ resolved' = value
            /\ stack' = << >>
            /\ pc' = "resolved"
       ELSE LET caller == stack[Len(stack) - 1] IN
            /\ stack' = [SubSeq(stack, 1, Len(stack) - 1) EXCEPT
                   ![Len(stack) - 1] = [caller EXCEPT
                       !.flattenedSteps =
                           Splice(@, value.flattenedSteps, Steps(caller)[caller.i]),
                       !.i = @ + 1,
                       !.at = "loop"]]
            /\ UNCHANGED <<pc, resolved>>
    /\ UNCHANGED <<files, heap, req, thrown, result, log, parked>>

(***************************************************************************)
(* workflow-execute: the plan text and the error text                      *)
(***************************************************************************)
\* data values a caller passes as `inputs`
Ada == [name |-> Str(<<"Ada">>)]
AdaGreeted == [name |-> Str(<<"Ada">>), greeting |-> Str(<<"Hello, Ada">>)]
DataSet == {EmptyObject, Ada, AdaGreeted}
ExecuteInputs == {Ada}

\* the properties that the code can set to undefined (step.description of an
\* inlining step without description)
UndefinedKeys == {"_parentDescription"}

\* a serialisation that fills the template of a step in
JSONStringifySubstituting(v) ==
    IF v = Undefined THEN Undefined
    ELSE IF Nullish(v) \/ IsArray(v) THEN JsonText(v)
    ELSE JsonText([f \in DOMAIN v |->
                      IF f = "template" THEN Str(<<"Say hello to ", "Ada">>)
                      ELSE v[f]])

\* a serialisation that keeps the name property of an object only
JSONStringifyNameOnly(v) ==
    IF v = Undefined THEN Undefined
    ELSE IF Nullish(v) \/ IsArray(v) THEN JsonText(v)
    ELSE JsonText([f \in DOMAIN v \cap {"name"} |-> v[f]])

\* a serialisation that leaves the provenance tag out
JSONStringifyUntagged(v) ==
    IF v = Undefined THEN Undefined
    ELSE IF Nullish(v) \/ IsArray(v) THEN JsonText(v)
    ELSE JsonText([f \in DOMAIN v \ {"_sourceWorkflow", "_parentDescription"}
                     |-> v[f]])

\* JSON.stringify(v): undefined for undefined (printed as the word by a
\* template literal); otherwise the JSON text of v, in which the properties
\* of v whose value is undefined are left out
JSONStringify(v) ==
    IF v = Undefined THEN Undefined
    ELSE IF Nullish(v) \/ IsArray(v) THEN JsonText(v)
    ELSE JsonText([f \in {g \in DOMAIN v :
                              g \in UndefinedKeys => v[g] # Undefined} |-> v[f]])

\* String.prototype.toUpperCase on the step types
ToUpperCase(type) ==
    CASE type = "prompt" -> "PROMPT"
      [] type = "mcp" -> "MCP"
      [] type = "workflow" -> "WORKFLOW"
      [] OTHER -> type

\* an annotation shown on every entry, whatever its tag
SourceNoteAll(step, name) == Str(<<" (from ", step._sourceWorkflow, ")">>)

\* step._sourceWorkflow !== name ? ` (from ${step._sourceWorkflow})` : ''
SourceNote(step, name) ==
    IF step._sourceWorkflow # name
    THEN Str(<<" (from ", step._sourceWorkflow, ")">>)
    ELSE Str(<< >>)

\* step.description || step.template?.substring(0, 60) + '...' || 'No description'
\* (+ binds tighter than ||, and undefined + '...' is the text 'undefined...')
ShortDescription(step) ==
    IF Truthy(Get(step, "description")) THEN step.description
    ELSE IF Get(step, "template") # Undefined
         THEN Str(<<"substring(0,60)", step.template, "...">>)
         ELSE Str(<<"undefined", "...">>)

\* step.type.toUpperCase() throws for a step without a type
PlanThrows(flattenedSteps) ==
    \E k \in 1..Len(flattenedSteps) : "type" \notin DOMAIN flattenedSteps[k]

\* the text returned for a resolved workflow, by its parts
PlanText(name, inputs, workflow) ==
    [kind |-> "plan",
     name |-> name,
     description |-> workflow.description,
     stepCount |-> Len(workflow.flattenedSteps),
     entries |-> [k \in 1..Len(workflow.flattenedSteps) |->
         LET step == workflow.flattenedSteps[k] IN
         [index |-> k, type |-> ToUpperCase(step.type),
          desc |-> ShortDescription(step), source |-> SourceNote(step, name)]],
     initialData |-> JSONStringify(inputs),
     expectedOutputs |->
         IF Truthy(workflow.expectedOutputs)
         THEN JSONStringify(workflow.expectedOutputs)
         ELSE Str(<<"Not specified">>),
     steps |-> [k \in 1..Len(workflow.flattenedSteps) |->
         LET step == workflow.flattenedSteps[k] IN
         [index |-> k, type |-> ToUpperCase(step.type),
          source |-> SourceNote(step, name), payload |-> JSONStringify(step)]]]

\* an error text that leaves the name of the workflow out
ErrorTextUnnamed(name, error) == [kind |-> "error", error |-> error]

\* the text returned by the catch block
ErrorText(name, error) == [kind |-> "error", name |-> name, error |-> error]

\* lines 123-183: the plan is built from the resolved workflow
ExecutePlan ==
    /\ pc = "resolved"
    /\ IF PlanThrows(resolved.flattenedSteps)
       THEN result' = ErrorText(req.name, TypeError)
       ELSE result' = PlanText(req.name, req.inputs, resolved)
    /\ pc' = "done"
    /\ UNCHANGED <<files, heap, stack, req, thrown, resolved, log, parked>>

\* lines 184-204: an exception of the resolution becomes an error text
ExecuteCatch ==
    /\ pc = "catch"
    /\ result' = ErrorText(req.name, thrown)
    /\ pc' = "done"
    /\ UNCHANGED <<files, heap, stack, req, thrown, resolved, log, parked>>

Next ==
    \/ \E name \in RootNames, inputs \in ExecuteInputs : ExecuteCall(name, inputs)
    \/ Enter
    \/ Read
    \/ LeafStep
    \/ CallStep
    \/ Return
    \/ ExecutePlan
    \/ ExecuteCatch

Spec == Init /\ [][Next]_vars

\* the same handler over the stores with malformed files
SpecAnyStore == InitAnyStore /\ [][Next]_vars

\* every store of either kind
SpecEveryStore == (Init \/ InitAnyStore) /\ [][Next]_vars

\* every store of either kind; the event loop runs every continuation that
\* is ready
FairSpec == (Init \/ InitAnyStore) /\ [][Next]_vars /\ WF_vars(Next)

TypeOK ==
    /\ pc \in {"idle", "resolving", "resolved", "catch", "done"}
    /\ Len(stack) <= MaxDepth

(***************************************************************************)
(* workflow-run: one step of a workflow per call                           *)
(***************************************************************************)
\* number of steps of the .md definition a store holds for workflow-run
MaxRunSteps == 3

\* the names workflow-run is asked for: a has an .md file, b has none
RunNames == {"a", "b"}

\* the `step` argument is an optional string: undefined, or one of these
StepStrings == {"", "-1", "0", "1", "2", "3", "4", "5", "abc"}
StepArgs == {Undefined} \cup { Str(<<t>>) : t \in StepStrings }

\* the `inputs` argument (z.any(): it may be left out)
RunInputs == DataSet \cup {Undefined}

\* JS numbers: an integer, or NaN
Num(n) == [num |-> n]
NaN == [nan |-> TRUE]
IsNum(x) == DOMAIN x = {"num"}

\* Number(step) for the strings above ('' is 0, a non-numeric text is NaN)
Number(step) ==
    LET t == step.str[1] IN
    CASE t = "" -> Num(0)
      [] t = "-1" -> Num(0 - 1)
      [] t = "0" -> Num(0)
      [] t = "1" -> Num(1)
      [] t = "2" -> Num(2)
      [] t = "3" -> Num(3)
      [] t = "4" -> Num(4)
      [] t = "5" -> Num(5)
      [] OTHER -> NaN

\* decimal numerals, by value
Numeral == <<"1", "2", "3", "4", "5">>

\* `${x}` for a JS number: its decimal numeral (the model names those of
\* 1 to 5 only)
NumberText(x) ==
    IF IsNum(x) /\ x.num \in 1..Len(Numeral)
    THEN Str(<<Numeral[x.num]>>)
    ELSE IF IsNum(x) THEN Str(<<"another number">>) ELSE Str(<<"NaN">>)

\* x < y and x > y on JS numbers: false as soon as one side is NaN
Less(x, y) == IsNum(x) /\ IsNum(y) /\ x.num < y.num
Greater(x, y) == Less(y, x)

\* an increment that is applied twice
PlusTwice(x, n) == IF IsNum(x) THEN Num(x.num + n + n) ELSE NaN

\* x + n and x - n
Plus(x, n) == IF IsNum(x) THEN Num(x.num + n) ELSE NaN

\* !step
StepMissing(step) == step = Undefined \/ step = Str(<<"">>)

\* a default that starts at the second step
DefaultStepTwo(step) == IF StepMissing(step) THEN Str(<<"2">>) ELSE step

\* lines 21-24: if (!step) step = '1'
DefaultStep(step) == IF StepMissing(step) THEN Str(<<"1">>) ELSE step

\* a length that counts a workflow-type step for more than one step
LengthExpanding(v) ==
    IF IsArray(v)
    THEN Num(Len(v.array)
             + Cardinality({ i \in 1..Len(v.array) : IsWorkflowStep(v.array[i]) }))
    ELSE NaN

\* v.length: the length of an array, undefined (NaN in a comparison) for
\* an object without that property
Length(v) == IF IsArray(v) THEN Num(Len(v.array)) ELSE NaN

\* an element read one position too far
ElementAtNext(v, x) ==
    IF IsArray(v) /\ IsNum(x) /\ x.num + 1 \in 1..Len(v.array)
    THEN v.array[x.num + 1]
    ELSE Undefined

\* line 56: obj.steps[Number(step) - 1], with x = Number(step); a read
\* outside the array, or of an object without that key, gives undefined
ElementAt(v, x) ==
    IF IsArray(v) /\ IsNum(x) /\ x.num \in 1..Len(v.array)
    THEN v.array[x.num]
    ELSE Undefined

\* lines 28-38: `Error: Step number must be greater than 0.`
StepErrorText == [kind |-> "stepError"]

\* a completion text that reports no data
CompletionTextNoData(name, total, inputs) ==
    [kind |-> "complete", name |-> name, total |-> total,
     finalOutputs |-> JsonText(EmptyObject)]

\* lines 43-53: `Workflow '${name}' run successfully. All ${total} steps have
\* been completed. Final outputs are: ${JSON.stringify(inputs)}`
CompletionText(name, total, inputs) ==
    [kind |-> "complete", name |-> name, total |-> total,
     finalOutputs |-> JSONStringify(inputs)]

\* lines 59-88: the instruction for one step
InstructionText(name, step, currentStep, inputs, nextStep) ==
    [kind |-> "instruction", name |-> name, step |-> step,
     stepDefinition |-> JSONStringify(currentStep),
     currentInputs |-> JSONStringify(inputs),
     nextStep |-> nextStep]

\* lines 89-101: `Error running workflow '${name}': ${message}`
RunErrorText(name, error) == [kind |-> "runError", name |-> name, error |-> error]

\* lines 16-101: the handler, given the content of the file it reads
WorkflowRunHandler(content, name, stepArg, inputs) ==
    IF content = NoFile THEN RunErrorText(name, NotFoundError(name))
    ELSE IF ~ParseOk(content) THEN RunErrorText(name, ParseError)
    ELSE
      LET obj == JSONParse(content)
          step == DefaultStep(stepArg)
      IN  IF Less(Number(step), Num(1)) THEN StepErrorText
          ELSE IF Nullish(obj) \/ Nullish(Get(obj, "steps"))
               THEN RunErrorText(name, TypeError)
          ELSE IF Greater(Number(step), Length(obj.steps))
               THEN CompletionText(name, Length(obj.steps), inputs)
          ELSE InstructionText(name, step, ElementAt(obj.steps, Number(step)),
                               inputs, Plus(Number(step), 1))

\* the handler is invoked and returns
WorkflowRun(name, stepArg, inputs) ==
    /\ pc = "idle"
    /\ req' = [op |-> "workflow-run", name |-> name, step |-> stepArg,
               inputs |-> inputs]
    /\ result' = WorkflowRunHandler(ReadFile(FileName(name, "md")), name,
                                    stepArg, inputs)
    /\ pc' = "done"
    /\ UNCHANGED <<files, heap, stack, thrown, resolved, log, parked>>

\* a store for workflow-run: an .md file for a, none for the other names
InitRun ==
    /\ \E ca \in ContentsUpTo("a", MaxRunSteps, BadContents("a")) :
          files = [p \in Paths |-> IF p = FileName("a", "md") THEN ca ELSE NoFile]
    /\ Idle

NextRun ==
    \E name \in RunNames, stepArg \in StepArgs, inputs \in RunInputs :
        WorkflowRun(name, stepArg, inputs)

SpecRun == InitRun /\ [][NextRun]_vars

(***************************************************************************)
(* A driver of workflow-run, as the description of the tool asks for:      *)
(* "Use this tool recursively to run all steps in a workflow."             *)
(***************************************************************************)
\* the data a driver passes along: the outputs it generated so far
DriverInputs == {Ada, AdaGreeted}

\* a driver is given up after this many calls
MaxDriverCalls == MaxRunSteps + 2

\* the result of the handler reaches the caller, and the invocation with
\* its locals is over (the Set objects stay while another invocation is
\* suspended)
Respond ==
    /\ pc = "done"
    /\ log' = Append(log, [req |-> req, files |-> files, result |-> result])
    /\ pc' = "idle"
    /\ heap' = IF parked = << >> THEN << >> ELSE heap
    /\ stack' = << >>
    /\ req' = Undefined
    /\ thrown' = Undefined
    /\ resolved' = Undefined
    /\ result' = Undefined
    /\ UNCHANGED <<files, parked>>

\* the driver starts a run with step 1
DriverStart(name, inputs) ==
    /\ log = << >>
    /\ WorkflowRun(name, Str(<<"1">>), inputs)

\* line 78: "use the workflow-run tool again with step=${nextStep} and the
\* generated outputs": on an instruction the driver calls again, for the
\* same workflow, with the step the instruction names
DriverNext(inputs) ==
    /\ log # << >>
    /\ Len(log) < MaxDriverCalls
    /\ LET last == log[Len(log)] IN
       /\ last.result.kind = "instruction"
       /\ WorkflowRun(last.req.name, NumberText(last.result.nextStep), inputs)

NextDrive ==
    \/ \E name \in RunNames, inputs \in DriverInputs : DriverStart(name, inputs)
    \/ \E inputs \in DriverInputs : DriverNext(inputs)
    \/ Respond

\* the store is not edited during the run; the driver goes on as long as it
\* is told to
SpecDrive == InitRun /\ [][NextDrive]_vars /\ WF_vars(NextDrive)

(***************************************************************************)
(* workflow-run over definitions that nest: a is saved as a.md and as      *)
(* a.json, and b, which a may reference, is a workflow of leaf steps       *)
(***************************************************************************)
MaxNestedSteps == 2

InitRunNested ==
    /\ \E ca \in ContentsUpTo("a", MaxRunSteps, {}) :
       \E cb \in { JsonText(DefinitionOf("b", [i \in 1..n |-> "leaf"])) :
                       n \in 0..MaxNestedSteps } :
          files = [p \in Paths |->
                      IF p[1] = "a" THEN ca
                      ELSE IF p[1] = "b" THEN cb
                      ELSE NoFile]
    /\ Idle

SpecRunNested == InitRunNested /\ [][NextRun]_vars

(***************************************************************************)
(* Both handlers over every data value, for definitions that declare       *)
(* expectedOutputs (one name, or none) and definitions that do not         *)
(***************************************************************************)
MaxEchoSteps == 2

\* prompt steps whose templates hold {{field}} placeholders
GreetStep ==
    [type |-> "prompt", template |-> Str(<<"Say hello to ", "{{name}}">>),
     outputs |-> [greeting |-> Str(<<"string">>)]]
ThankStep ==
    [type |-> "prompt",
     template |-> Str(<<"Thank ", "{{name}}", " for ", "{{greeting}}">>)]

\* the steps of the definitions: leaf steps, or the steps above
EchoSteps(w) ==
    { [i \in 1..n |-> StepAt(w, i, "leaf")] : n \in 1..MaxEchoSteps }
        \cup { <<GreetStep>>, <<GreetStep, ThankStep>> }

\* the definition of w with these steps and this expectedOutputs property
\* (undefined: the property is not written)
DeclaringOutputs(w, steps, outputs) ==
    IF outputs = Undefined
    THEN [name |-> w, description |-> Str(<<"description", w>>),
          steps |-> Array(steps)]
    ELSE [name |-> w, description |-> Str(<<"description", w>>),
          steps |-> Array(steps), expectedOutputs |-> outputs]

OutputDeclarations ==
    { Undefined, Array(<< >>), Array(<<Str(<<"greeting">>)>>) }

InitEcho ==
    /\ \E steps \in EchoSteps("a"), outputs \in OutputDeclarations :
          files = [p \in Paths |->
                      IF p[1] = "a"
                      THEN JsonText(DeclaringOutputs("a", steps, outputs))
                      ELSE NoFile]
    /\ Idle

NextEcho ==
    \/ \E name \in RootNames, inputs \in RunInputs : ExecuteCall(name, inputs)
    \/ Enter
    \/ Read
    \/ LeafStep
    \/ Return
    \/ ExecutePlan
    \/ NextRun

SpecEcho == InitEcho /\ [][NextEcho]_vars

(***************************************************************************)
(* Calls one after the other, the store being edited from outside          *)
(* between them                                                            *)
(***************************************************************************)
\* number of calls in one behaviour
MaxCalls == 2

\* what an edit may put into a file
EditContents(path) ==
    IF path = FileName("a", "json")
    THEN { JsonText(DefinitionOf("a", <<"leaf">>)),
           JsonText(DefinitionOf("a", <<"b">>)) }
    ELSE IF path = FileName("b", "json")
    THEN { NoFile, JsonText(DefinitionOf("b", <<"leaf">>)) }
    ELSE IF path = FileName("a", "md")
    THEN { JsonText(DefinitionOf("a", <<"leaf">>)),
           JsonText(DefinitionOf("a", <<"leaf", "leaf">>)) }
    ELSE { NoFile }

InitEdit ==
    /\ files \in [Paths -> UNION { EditContents(p) : p \in Paths }]
    /\ \A p \in Paths : files[p] \in EditContents(p)
    /\ Idle

\* somebody writes a file of the project directory while no call is running
Edit(path, content) ==
    /\ pc = "idle"
    /\ files[path] # content
    /\ files' = [files EXCEPT ![path] = content]
    /\ UNCHANGED <<heap, stack, pc, req, thrown, resolved, result, log, parked>>

\* the calls of workflow-run that are made
EditStepArgs == { Undefined, Str(<<"2">>) }

NextEdit ==
    \/ /\ Len(log) < MaxCalls
       /\ \/ \E name \in RootNames, inputs \in ExecuteInputs :
                ExecuteCall(name, inputs)
          \/ \E name \in RootNames, stepArg \in EditStepArgs,
                inputs \in ExecuteInputs : WorkflowRun(name, stepArg, inputs)
    \/ Enter
    \/ Read
    \/ LeafStep
    \/ CallStep
    \/ Return
    \/ ExecutePlan
    \/ ExecuteCatch
    \/ Respond
    \/ \E path \in Paths : \E content \in EditContents(path) : Edit(path, content)

SpecEdit == InitEdit /\ [][NextEdit]_vars

(***************************************************************************)
(* Requests that arrive while a resolution waits: the event loop runs one  *)
(* invocation until it awaits, then any invocation whose await is over     *)
(***************************************************************************)
\* number of requests in one behaviour
MaxConcurrent == 2

\* the definitions of the stores: a with a leaf, with one or two references
\* to b, with a reference to itself; b absent, with a leaf, or with a
\* reference back to a
PairShapes(w) ==
    IF w = "a"
    THEN { <<"leaf">>, <<"b">>, <<"b", "b">>, <<"a">> }
    ELSE IF w = "b"
    THEN { <<"leaf">>, <<"a">> }
    ELSE { }

PairContents(w) ==
    { JsonText(DefinitionOf(w, shape)) : shape \in PairShapes(w) }
        \cup (IF w = "a" THEN { } ELSE { NoFile })

\* the names asked for
PairNames == {"a", "b"}

\* the running invocation has reached an await: of readFile (line 76), of
\* the promise of an activation that is about to return (line 88), or, in
\* the handler, of the resolution (line 121)
AtAwait ==
    \/ /\ pc = "resolving" /\ stack # << >>
       /\ \/ Top.at = "read"
          \/ Top.at = "loop" /\ Top.i > Len(Steps(Top))
    \/ pc \in {"resolved", "catch"}

\* the invocation is suspended; its Set objects stay on the heap
Park ==
    /\ AtAwait
    /\ parked' = Append(parked, [stack |-> stack, pc |-> pc, req |-> req,
                                 thrown |-> thrown, resolved |-> resolved])
    /\ pc' = "idle"
    /\ stack' = << >>
    /\ req' = Undefined
    /\ thrown' = Undefined
    /\ resolved' = Undefined
    /\ UNCHANGED <<files, heap, result, log>>

\* the await of a suspended invocation is over and it runs again
Resume(k) ==
    /\ pc = "idle"
    /\ k \in 1..Len(parked)
    /\ stack' = parked[k].stack
    /\ pc' = parked[k].pc
    /\ req' = parked[k].req
    /\ thrown' = parked[k].thrown
    /\ resolved' = parked[k].resolved
    /\ parked' = [j \in 1..(Len(parked) - 1) |->
                     IF j < k THEN parked[j] ELSE parked[j + 1]]
    /\ UNCHANGED <<files, heap, result, log>>

InitPair ==
    /\ \E ca \in PairContents("a"), cb \in PairContents("b"),
          cc \in PairContents("c") : files = StoreOf(ca, cb, cc)
    /\ Idle

NextPair ==
    \/ /\ Len(log) + Len(parked) < MaxConcurrent
       /\ \E name \in PairNames, inputs \in ExecuteInputs :
             ExecuteCall(name, inputs)
    \/ Enter
    \/ Read
    \/ LeafStep
    \/ CallStep
    \/ Return
    \/ ExecutePlan
    \/ ExecuteCatch
    \/ Respond
    \/ Park
    \/ \E k \in 1..MaxConcurrent : Resume(k)

SpecPair == InitPair /\ [][NextPair]_vars

(***************************************************************************)
(* workflow-save (src/src/tools/workflow-save.ts), followed by the         *)
(* handlers that read definitions                                          *)
(***************************************************************************)
\* the names that are saved and asked for
SaveNames == {"a", "b"}

\* the `content` argument: the JSON text of a definition of leaf steps
SaveContents(w) ==
    { JsonText(DefinitionOf(w, <<"leaf">>)),
      JsonText(DefinitionOf(w, <<"leaf", "leaf">>)) }

\* lines 30-37: `Workflow '${name}' saved successfully to ${fileName}.`
SavedText(name, fileName) ==
    [kind |-> "saved", name |-> name, fileName |-> fileName]

\* a save into the file the resolution reads
SaveFileNameJson(name) == FileName(name, "json")

\* line 17: workflowDir + '/' + name + '.md'
SaveFileName(name) == FileName(name, "md")

\* lines 15-37: the handler writes content to `${workflowDir}/${name}.md`
\* (mkdir and writeFile succeed)
WorkflowSave(name, content) ==
    /\ pc = "idle"
    /\ req' = [op |-> "workflow-save", name |-> name, content |-> content]
    /\ files' = [files EXCEPT ![SaveFileName(name)] = content]
    /\ result' = SavedText(name, SaveFileName(name))
    /\ pc' = "done"
    /\ UNCHANGED <<heap, stack, thrown, resolved, log, parked>>

\* a project directory without definitions, or with a definition of a
\* of three steps in a.json
InitSave ==
    /\ \E ca \in { NoFile,
                    JsonText(DefinitionOf("a", <<"leaf", "leaf", "leaf">>)) } :
          files = [p \in Paths |-> IF p = FileName("a", "json") THEN ca ELSE NoFile]
    /\ Idle

NextSave ==
    \/ /\ Len(log) < MaxCalls
       /\ \/ \E name \in SaveNames : \E content \in SaveContents(name) :
                WorkflowSave(name, content)
          \/ \E name \in SaveNames, inputs \in ExecuteInputs :
                ExecuteCall(name, inputs)
          \/ \E name \in SaveNames, inputs \in ExecuteInputs :
                WorkflowRun(name, Undefined, inputs)
    \/ Enter
    \/ Read
    \/ LeafStep
    \/ Return
    \/ ExecutePlan
    \/ ExecuteCatch
    \/ Respond

SpecSave == InitSave /\ [][NextSave]_vars

(***************************************************************************)
(* workflow-save while a resolution waits for a file                       *)
(***************************************************************************)
\* the root references b twice, or has a leaf and a reference to b; b.json
\* is absent or holds a definition of one or two leaves
InitInterleave ==
    /\ \E ca \in { JsonText(DefinitionOf("a", <<"b", "b">>)),
                    JsonText(DefinitionOf("a", <<"leaf", "b">>)) } :
       \E cb \in { NoFile } \cup SaveContents("b") :
          files = StoreOf(ca, cb, NoFile)
    /\ Idle

NextInterleave ==
    \/ /\ Len(log) + Len(parked) < MaxConcurrent
       /\ \/ \E name \in RootNames, inputs \in ExecuteInputs :
                ExecuteCall(name, inputs)
          \/ \E content \in SaveContents("b") : WorkflowSave("b", content)
    \/ Enter
    \/ Read
    \/ LeafStep
    \/ CallStep
    \/ Return
    \/ ExecutePlan
    \/ ExecuteCatch
    \/ Respond
    \/ Park
    \/ \E k \in 1..MaxConcurrent : Resume(k)

SpecInterleave == InitInterleave /\ [][NextInterleave]_vars

(***************************************************************************)
(* Both handlers over stores in which something is wrong                   *)
(***************************************************************************)
\* a step that was written without a type
TypelessStepAt(w, i) == [tool |-> Str(<<"tool", w, i>>)]

\* the definition of w with these steps
DefinitionWith(w, steps) == [steps |-> Array(steps)] @@ HeaderOf(w)

\* file contents that hold no JSON object: the contents above and a number
FailingContents(w) == BadContents(w) \cup { JsonText(Num(5)) }

\* a.json: no object, or a definition that references itself, or b, or
\* has a step without a type; b.json: no object, or a definition that
\* references a, or has a step without a type; a.md: no object, or a
\* definition of one step, with or without a type
InitFailing ==
    /\ \E ca \in FailingContents("a") \cup
                  { JsonText(DefinitionWith("a", <<StepAt("a", 1, "a")>>)),
                    JsonText(DefinitionWith("a", <<StepAt("a", 1, "b")>>)),
                    JsonText(DefinitionWith("a", <<StepAt("a", 1, "leaf"),
                                                   TypelessStepAt("a", 2)>>)) } :
       \E cb \in FailingContents("b") \cup
                  { JsonText(DefinitionWith("b", <<StepAt("b", 1, "a")>>)),
                    JsonText(DefinitionWith("b", <<TypelessStepAt("b", 1)>>)) } :
       \E cm \in FailingContents("a") \cup
                  { JsonText(DefinitionWith("a", <<TypelessStepAt("a", 1)>>)),
                    JsonText(DefinitionWith("a", <<StepAt("a", 1, "leaf")>>)) } :
          files = [p \in Paths |->
                      IF p = FileName("a", "json") THEN ca
                      ELSE IF p = FileName("b", "json") THEN cb
                      ELSE IF p = FileName("a", "md") THEN cm
                      ELSE NoFile]
    /\ Idle

NextFailing == Next \/ NextRun

SpecFailing == InitFailing /\ [][NextFailing]_vars

(***************************************************************************)
(* The reference graph of a store, read off the .json files                *)
(***************************************************************************)
Root == "a"

\* the file of w holds an object with a steps array
HasStepsArray(w) ==
    LET content == files[FileName(w, "json")] IN
    /\ content # NoFile
    /\ content # Garbage
    /\ content.value # JsonNull
    /\ "steps" \in DOMAIN content.value
    /\ DOMAIN content.value.steps = {"array"}

\* the steps written in the definition of w (none when there is no array)
WrittenSteps(w) ==
    IF HasStepsArray(w) THEN files[FileName(w, "json")].value.steps.array ELSE << >>

\* the names referenced by the workflow-type steps of w
Refs(w) ==
    { WrittenSteps(w)[i].workflow :
        i \in { j \in 1..Len(WrittenSteps(w)) : WrittenSteps(w)[j].type = "workflow" } }

\* names reachable from w along at most n references
RECURSIVE ReachWithin(_, _)
ReachWithin(w, n) ==
    IF n = 0 THEN {w}
    ELSE {w} \cup UNION { ReachWithin(v, n - 1) : v \in Refs(w) }

Reachable(w) == ReachWithin(w, Cardinality(WorkflowNames))

\* w references itself directly or through a chain of workflow-type steps
OnCycle(w) == \E v \in Refs(w) : w \in Reachable(v)

Acyclic(w) == \A v \in Reachable(w) : ~OnCycle(v)

AllValid(w) == \A v \in Reachable(w) : HasStepsArray(v)

\* the depth-first, left-to-right expansion of w: its leaf steps as written,
\* every workflow-type step replaced by the expansion of what it references
\* (n bounds the nesting; an acyclic store never nests deeper than its names)
RECURSIVE Expansion(_, _)
Expansion(w, n) ==
    LET steps == WrittenSteps(w)
        Piece(i) ==
            IF steps[i].type = "workflow"
            THEN IF n = 0 THEN << >> ELSE Expansion(steps[i].workflow, n - 1)
            ELSE << steps[i] >>
        RECURSIVE Concat(_)
        Concat(i) == IF i = 0 THEN << >> ELSE Concat(i - 1) \o Piece(i)
    IN Concat(Len(steps))

\* a flattened step without the provenance tags
Untag(s) ==
    [f \in DOMAIN s \ {"_sourceWorkflow", "_parentDescription"} |-> s[f]]

Untagged(seq) == [k \in 1..Len(seq) |-> Untag(seq[k])]

\* the resolution of the request has returned a value
Succeeded == pc \in {"resolved", "done"} /\ resolved # Undefined

\* the resolution of the request has failed with this error
FailedWith(error) == pc \in {"catch", "done"} /\ thrown = error

\* the workflow whose steps array holds the (untagged) step s
Origin(s) ==
    CHOOSE w \in WorkflowNames :
        \E i \in 1..Len(WrittenSteps(w)) : WrittenSteps(w)[i] = Untag(s)

(***************************************************************************)
(* C1: for a store whose graph reachable from the root is acyclic and      *)
(* whose reachable definitions all have a steps array, the resolution      *)
(* succeeds and its flattenedSteps are, tags aside, exactly the            *)
(* depth-first left-to-right expansion of the root.                        *)
(***************************************************************************)
C1_FlattenIsExpansion ==
    (pc \in {"resolved", "catch", "done"} /\ Acyclic(Root) /\ AllValid(Root)) =>
        /\ Succeeded
        /\ Untagged(resolved.flattenedSteps)
             = Expansion(Root, Cardinality(WorkflowNames))

\* a successful resolution of two or more steps, one of them written in a
\* workflow that the root does not reference itself (two levels of nesting)
C1_Witness ==
    /\ pc = "done" /\ result.kind = "plan"
    /\ Acyclic(Root) /\ AllValid(Root)
    /\ Len(resolved.flattenedSteps) >= 2
    /\ \E k \in 1..Len(resolved.flattenedSteps) :
          Origin(resolved.flattenedSteps[k]) \notin Refs(Root) \cup {Root}

(***************************************************************************)
(* C2: a workflow that references itself, directly or through a chain of   *)
(* workflow-type steps, makes the resolution fail with CircularDependency  *)
(* instead of recursing without bound: the recursion is never deeper than  *)
(* the number of workflows plus one; an activation for a name that is      *)
(* already on the current resolution path throws CircularDependency naming *)
(* exactly that name, and nothing else throws it; and with every reachable *)
(* definition well-formed, a reachable cycle always ends the resolution    *)
(* with that error.                                                        *)
(***************************************************************************)
\* the names of the activations below the top one: the resolution path
PathNames == { stack[k].workflowName : k \in 1..(Len(stack) - 1) }

C2_DepthBounded == Len(stack) <= Cardinality(WorkflowNames) + 1

C2_CycleEndsInError ==
    (pc = "done" /\ AllValid(Root) /\ ~Acyclic(Root)) =>
        /\ result.kind = "error"
        /\ result.error.kind = "CircularDependency"
        /\ OnCycle(result.error.workflow)

C2_SecondOccurrenceThrows ==
    (pc = "resolving" /\ stack # << >> /\ Top.at = "enter") =>
        /\ (Top.workflowName \in PathNames) =>
              (pc' = "catch" /\ thrown' = CircularError(Top.workflowName))
        /\ (pc' = "catch" /\ thrown'.kind = "CircularDependency") =>
              (Top.workflowName \in PathNames
                 /\ thrown'.workflow = Top.workflowName)

C2_CircularDependency ==
    /\ [](C2_DepthBounded /\ C2_CycleEndsInError)
    /\ [][C2_SecondOccurrenceThrows]_vars

\* a = [workflow b], b = [workflow a]: the resolution of a has failed with
\* CircularDependency naming a
C2_Witness ==
    /\ pc = "done"
    /\ Refs("a") = {"b"} /\ Refs("b") = {"a"}
    /\ result = ErrorText("a", CircularError("a"))

(***************************************************************************)
(* C3: a diamond is not a cycle.  When no workflow reachable from the root *)
(* references itself, the resolution never fails with CircularDependency,  *)
(* however often a workflow is referenced; and in a successful result each *)
(* leaf step of a workflow occurs once per reference path from the root to *)
(* that workflow.                                                          *)
(***************************************************************************)
\* number of reference paths of at most n steps from v to w
RECURSIVE PathCount(_, _, _)
PathCount(v, w, n) ==
    LET steps == WrittenSteps(v)
        RECURSIVE Sum(_)
        Sum(i) ==
            IF i = 0 THEN 0
            ELSE Sum(i - 1) +
                 (IF steps[i].type = "workflow" /\ n > 0
                  THEN PathCount(steps[i].workflow, w, n - 1) ELSE 0)
    IN (IF v = w THEN 1 ELSE 0) + Sum(Len(steps))

Occurrences(seq, x) == Cardinality({ k \in 1..Len(seq) : seq[k] = x })

C3_DiamondNotCycle ==
    Acyclic(Root) =>
        /\ (pc \in {"catch", "done"} /\ thrown # Undefined) =>
              thrown.kind # "CircularDependency"
        /\ Succeeded =>
              \A w \in WorkflowNames : \A i \in 1..Len(WrittenSteps(w)) :
                  WrittenSteps(w)[i].type # "workflow" =>
                      Occurrences(Untagged(resolved.flattenedSteps), WrittenSteps(w)[i])
                          = PathCount(Root, w, Cardinality(WorkflowNames))

\* the root references b in two sibling steps and the two copies of b's
\* leaf are in the result
C3_Witness ==
    /\ pc = "done" /\ result.kind = "plan"
    /\ Len(WrittenSteps(Root)) >= 2
    /\ WrittenSteps(Root)[1].type = "workflow"
    /\ WrittenSteps(Root)[2].type = "workflow"
    /\ WrittenSteps(Root)[1].workflow = "b"
    /\ WrittenSteps(Root)[2].workflow = "b"
    /\ Len(resolved.flattenedSteps) >= 2
    /\ Untag(resolved.flattenedSteps[1]) = Untag(resolved.flattenedSteps[2])

(***************************************************************************)
(* C4: for every store, cyclic or not, with or without missing or invalid  *)
(* definitions, the resolution terminates: the handler eventually returns  *)
(* a plan or an error text.                                                *)
(***************************************************************************)
\* along the resolution path every activation holds a strictly larger
\* visited set than its caller, once it has added its own name
C4_VisitedGrows ==
    \A k \in 1..(Len(stack) - 1) :
        /\ heap[stack[k].visited] \subseteq heap[stack[k + 1].visited]
        /\ stack[k + 1].at # "enter" =>
              heap[stack[k].visited] # heap[stack[k + 1].visited]

C4_Terminates == <>(pc = "done") /\ []C4_VisitedGrows

\* the resolution of a store with a reachable cycle and a bad file is over
C4_Witness ==
    /\ pc = "done"
    /\ ~Acyclic(Root)
    /\ \E w \in WorkflowNames : ~HasStepsArray(w)

(***************************************************************************)
(* C5: a workflow whose steps field is missing, is not a sequence, or is   *)
(* an empty sequence makes the resolution fail with InvalidDefinition; a   *)
(* definition with steps = [] never yields a plan of zero steps.           *)
(* (Stated for the root, the first definition to be read.)                 *)
(***************************************************************************)
\* the root file holds an object whose steps is missing, not an array, or []
RootStepsUnusable ==
    LET content == files[FileName(Root, "json")] IN
    /\ content # NoFile
    /\ content # Garbage
    /\ content.value # JsonNull
    /\ Len(WrittenSteps(Root)) = 0

C5_InvalidDefinition ==
    (pc = "done" /\ RootStepsUnusable) =>
        result = ErrorText(Root, InvalidError(Root))

\* the part of C5 that the code does satisfy (under SpecAnyStore): missing
\* and non-array steps
C5_MissingOrNotArray ==
    (pc = "done" /\ RootStepsUnusable /\ ~HasStepsArray(Root)) =>
        result = ErrorText(Root, InvalidError(Root))

(***************************************************************************)
(* C6: in every successful result each flattened step is tagged with the   *)
(* workflow whose own steps array contains it, at every nesting depth.     *)
(***************************************************************************)
C6_SourceIsOrigin ==
    Succeeded =>
        \A k \in 1..Len(resolved.flattenedSteps) :
            resolved.flattenedSteps[k]._sourceWorkflow
                = Origin(resolved.flattenedSteps[k])

(***************************************************************************)
(* C7: with one level of nesting (every workflow-type step of the root     *)
(* references a workflow of leaf steps only) the result is, in order: each *)
(* leaf of the root tagged with the root's name, and for each workflow-    *)
(* type step of the root the steps of the referenced workflow S, each      *)
(* tagged with S and with the description of that workflow-type step.      *)
(***************************************************************************)
LeafOnly(w) ==
    /\ HasStepsArray(w)
    /\ \A i \in 1..Len(WrittenSteps(w)) : WrittenSteps(w)[i].type # "workflow"

OneLevel ==
    /\ HasStepsArray(Root)
    /\ \A v \in Refs(Root) : LeafOnly(v)

\* what the root's step at position i contributes under C7
OneLevelPiece(i) ==
    LET step == WrittenSteps(Root)[i] IN
    IF step.type = "workflow"
    THEN [m \in 1..Len(WrittenSteps(step.workflow)) |->
             [f \in DOMAIN WrittenSteps(step.workflow)[m]
                      \cup {"_sourceWorkflow", "_parentDescription"} |->
                 IF f = "_sourceWorkflow" THEN step.workflow
                 ELSE IF f = "_parentDescription" THEN step.description
                 ELSE WrittenSteps(step.workflow)[m][f]]]
    ELSE << [f \in DOMAIN step \cup {"_sourceWorkflow"} |->
                 IF f = "_sourceWorkflow" THEN Root ELSE step[f]] >>

RECURSIVE OneLevelExpected(_)
OneLevelExpected(i) ==
    IF i = 0 THEN << >> ELSE OneLevelExpected(i - 1) \o OneLevelPiece(i)

C7_OneLevelProvenance ==
    (pc \in {"resolved", "catch", "done"} /\ OneLevel) =>
        /\ Succeeded
        /\ resolved.flattenedSteps = OneLevelExpected(Len(WrittenSteps(Root)))

\* a = [workflow b], b = [leaf, leaf]: two flattened steps, both tagged b
C7_Witness ==
    /\ pc = "done" /\ result.kind = "plan"
    /\ OneLevel
    /\ Len(WrittenSteps(Root)) = 1
    /\ Refs(Root) = {"b"}
    /\ Len(resolved.flattenedSteps) = 2
    /\ \A k \in 1..2 :
          /\ resolved.flattenedSteps[k]._sourceWorkflow = "b"
          /\ resolved.flattenedSteps[k]._parentDescription
                = WrittenSteps(Root)[1].description

(***************************************************************************)
(* The .md definition that a workflow-run request names                    *)
(***************************************************************************)
RunDone == pc = "done" /\ req.op = "workflow-run"

\* the file of the requested name holds an object with a steps array
RunLoadable ==
    LET content == files[FileName(req.name, "md")] IN
    /\ content # NoFile
    /\ content # Garbage
    /\ content.value # JsonNull
    /\ "steps" \in DOMAIN content.value
    /\ DOMAIN content.value.steps = {"array"}

\* its top-level steps
RunSteps == files[FileName(req.name, "md")].value.steps.array

\* the request carries the step index k >= 1, written in decimal
RunIndexIs(k) == req.step = Str(<<Numeral[k]>>)

\* the text that echoes the data of the request: its JSON text (the word
\* undefined when the caller passed no data)
EchoOfInputs ==
    IF req.inputs = Undefined
    THEN Undefined
    ELSE [text |-> "json", value |-> req.inputs]

(***************************************************************************)
(* C8: workflow-run with step 0 or a negative step returns the             *)
(* step-number error for every name and every data value, also when the    *)
(* definition of the name is absent or unparsable.                         *)
(***************************************************************************)
C8_InvalidStepIndex ==
    (RunDone /\ req.step \in {Str(<<"0">>), Str(<<"-1">>)}) =>
        result.kind = "stepError"

\* the part of C8 the code satisfies: the guard answers whenever the file
\* could be read and parsed
C8_GuardAfterLoad ==
    (RunDone /\ req.step \in {Str(<<"0">>), Str(<<"-1">>)}) =>
        IF files[FileName(req.name, "md")] \in {NoFile, Garbage}
        THEN result.kind = "runError"
        ELSE result.kind = "stepError"

(***************************************************************************)
(* C9: for a loadable workflow with N top-level steps and a step index k   *)
(* with 1 <= k <= N, workflow-run returns an instruction that holds        *)
(* exactly steps[k - 1] as the step definition, the supplied data          *)
(* unchanged, and k + 1 as the index of the next call.                     *)
(***************************************************************************)
C9_Instruction ==
    \A k \in 1..Len(Numeral) :
        (RunDone /\ RunLoadable /\ RunIndexIs(k) /\ k <= Len(RunSteps)) =>
            /\ result.kind = "instruction"
            /\ result.name = req.name
            /\ result.stepDefinition = [text |-> "json", value |-> RunSteps[k]]
            /\ result.currentInputs = EchoOfInputs
            /\ result.nextStep = [num |-> k + 1]

\* the last step of a workflow of two or more steps is handed out
C9_Witness ==
    /\ RunDone /\ RunLoadable
    /\ Len(RunSteps) >= 2
    /\ RunIndexIs(Len(RunSteps))
    /\ req.inputs = Ada
    /\ result.kind = "instruction"
    /\ result.nextStep = [num |-> Len(RunSteps) + 1]

(***************************************************************************)
(* C10: for a loadable workflow with N top-level steps, workflow-run with  *)
(* a step index above N returns a completion notice whose final outputs    *)
(* are the supplied data verbatim, for every data value; it carries no     *)
(* step definition.                                                        *)
(***************************************************************************)
C10_Completion ==
    \A k \in 1..Len(Numeral) :
        (RunDone /\ RunLoadable /\ RunIndexIs(k) /\ k > Len(RunSteps)) =>
            /\ result.kind = "complete"
            /\ result.name = req.name
            /\ result.total = [num |-> Len(RunSteps)]
            /\ result.finalOutputs = EchoOfInputs
            /\ "stepDefinition" \notin DOMAIN result

\* index N + 1 of a workflow of N >= 1 steps, called with the empty object
C10_Witness ==
    /\ RunDone /\ RunLoadable
    /\ Len(RunSteps) >= 1
    /\ RunIndexIs(Len(RunSteps) + 1)
    /\ req.inputs = EmptyObject
    /\ result.kind = "complete"
    /\ result.finalOutputs = [text |-> "json", value |-> EmptyObject]

(***************************************************************************)
(* C11: workflow-run called without a step returns exactly the result of   *)
(* workflow-run called with step 1 for the same name, store and data: an   *)
(* instruction for the first step, the completion notice of a workflow of  *)
(* zero steps, or the error of a failing load.                             *)
(***************************************************************************)
C11_DefaultIsStepOne ==
    (RunDone /\ req.step = Undefined) =>
        result = WorkflowRunHandler(files[FileName(req.name, "md")], req.name,
                                    Str(<<"1">>), req.inputs)

\* no step was given and the first step of a workflow of two or more steps
\* has been handed out, as step 1 and with 2 as the next index
C11_Witness ==
    /\ RunDone /\ RunLoadable
    /\ req.step = Undefined
    /\ Len(RunSteps) >= 2
    /\ result.kind = "instruction"
    /\ result.step = Str(<<"1">>)
    /\ result.stepDefinition = [text |-> "json", value |-> RunSteps[1]]
    /\ result.nextStep = [num |-> 2]

(***************************************************************************)
(* C12: a driver that starts at step 1 and on every instruction calls      *)
(* again with the index the instruction names, on a store that is not      *)
(* edited, receives the top-level steps 1..N each exactly once and in      *)
(* order and the completion notice on call N + 1: the i-th answer is the   *)
(* instruction for steps[i - 1] for i <= N, the completion notice for      *)
(* i = N + 1, there is no answer after that one, and the run ends.         *)
(***************************************************************************)
\* the .md file of w holds an object with a steps array
MdLoadable(w) ==
    LET content == files[FileName(w, "md")] IN
    /\ content # NoFile
    /\ content # Garbage
    /\ content.value # JsonNull
    /\ "steps" \in DOMAIN content.value
    /\ DOMAIN content.value.steps = {"array"}

MdSteps(w) == files[FileName(w, "md")].value.steps.array

C12_InOrder ==
    \A i \in 1..Len(log) :
        MdLoadable(log[i].req.name) =>
            LET steps == MdSteps(log[i].req.name) IN
            /\ i <= Len(steps) + 1
            /\ i <= Len(steps) =>
                  /\ log[i].result.kind = "instruction"
                  /\ log[i].result.stepDefinition
                        = [text |-> "json", value |-> steps[i]]
            /\ i = Len(steps) + 1 => log[i].result.kind = "complete"

\* the driver has its last answer: the completion notice, when the file of
\* the workflow holds a steps array
C12_RunOver ==
    /\ pc = "idle"
    /\ log # << >>
    /\ MdLoadable(log[1].req.name) => log[Len(log)].result.kind = "complete"

C12_DriverRun == []C12_InOrder /\ <>C12_RunOver

\* a workflow of three steps has been driven to its completion notice in
\* four calls, the data growing on the way
C12_Witness ==
    /\ pc = "idle"
    /\ Len(log) = 4
    /\ MdLoadable("a") /\ Len(MdSteps("a")) = 3
    /\ \A i \in 1..3 : log[i].result.kind = "instruction"
    /\ log[1].req.inputs = Ada
    /\ log[4].req.inputs = AdaGreeted
    /\ log[4].result.kind = "complete"
    /\ log[4].result.finalOutputs = [text |-> "json", value |-> AdaGreeted]

(***************************************************************************)
(* C13: a failure inside workflow-execute or workflow-run is returned as a *)
(* result of failure shape that names the requested workflow; no exception *)
(* leaves the handler.  Every call ends with a result.  workflow-execute   *)
(* answers with its error text, naming the requested workflow, whenever    *)
(* the resolution threw, and for every store in which the definition of    *)
(* the root or of a workflow it references is absent, unparsable, not an   *)
(* object, without a steps array, holds a step without a type, or is on a  *)
(* cycle.  workflow-run answers with its error text, naming the requested  *)
(* workflow, whenever the file is absent, unparsable, not an object or     *)
(* without steps and the step index passes the guard.                      *)
(***************************************************************************)
\* the result names the workflow that was asked for
NamesRequested == "name" \in DOMAIN result /\ result.name = req.name

\* the content holds no object with a steps property
NoStepsIn(content) ==
    \/ content \in {NoFile, Garbage}
    \/ content.value = JsonNull
    \/ "steps" \notin DOMAIN content.value

FlattenedLength == Len(Expansion(req.name, Cardinality(WorkflowNames)))

C14_TopLevelSteps ==
    \A k \in 1..Len(Numeral) :
        (RunDone /\ RunLoadable /\ RunIndexIs(k)) =>
            IF k <= Len(RunSteps)
            THEN /\ result.kind = "instruction"
                 /\ result.stepDefinition = [text |-> "json", value |-> RunSteps[k]]
                 /\ RunSteps[k].type = "workflow" =>
                       /\ result.stepDefinition.value.type = "workflow"
                       /\ result.stepDefinition.value.workflow = RunSteps[k].workflow
            ELSE /\ result.kind = "complete"
                 /\ result.total = [num |-> Len(RunSteps)]

\* a = [workflow b, leaf] and b has two steps: the flattened sequence has
\* three steps, and index 3 is answered with the completion of 2 steps
C14_Witness ==
    /\ RunDone /\ RunLoadable /\ req.name = "a"
    /\ Len(RunSteps) = 2
    /\ RunSteps[1].type = "workflow" /\ RunSteps[1].workflow = "b"
    /\ FlattenedLength = 3
    /\ RunIndexIs(3)
    /\ result.kind = "complete"
    /\ result.total = [num |-> 2]

(***************************************************************************)
(* C15: the plan built from a resolved workflow of n flattened steps       *)
(* announces n steps, lists n entries numbered 1..n in flattened order     *)
(* (the k-th entry shows the type of the k-th flattened step), and its     *)
(* payload section holds the same n steps under the same numbers, the k-th *)
(* payload being the k-th flattened step with its _sourceWorkflow tag.     *)
(***************************************************************************)
C15_PlanListsFlattenedSteps ==
    (pc = "done" /\ req.op = "workflow-execute" /\ result.kind = "plan") =>
        LET flat == resolved.flattenedSteps
            n == Len(flat)
        IN  /\ result.stepCount = n
            /\ Len(result.entries) = n
            /\ Len(result.steps) = n
            /\ \A k \in 1..n :
                  /\ result.entries[k].index = k
                  /\ result.entries[k].type = ToUpperCase(flat[k].type)
                  /\ result.steps[k].index = k
                  /\ result.steps[k].type = result.entries[k].type
                  /\ result.steps[k].payload.text = "json"
                  /\ "_sourceWorkflow" \in DOMAIN result.steps[k].payload.value
                  /\ result.steps[k].payload.value._sourceWorkflow
                        = flat[k]._sourceWorkflow
                  /\ Untag(result.steps[k].payload.value) = Untag(flat[k])

\* a plan of three or more steps, some written in the root and some inlined
\* from another workflow
C15_Witness ==
    /\ pc = "done" /\ req.op = "workflow-execute" /\ result.kind = "plan"
    /\ result.stepCount >= 3
    /\ Len(result.steps) = result.stepCount
    /\ \E j, k \in 1..result.stepCount :
          /\ result.steps[j].payload.value._sourceWorkflow = req.name
          /\ result.steps[k].payload.value._sourceWorkflow # req.name
          /\ result.entries[k].source # Str(<< >>)

(***************************************************************************)
(* C16: the short description of a plan entry is the description of the    *)
(* step if it has one; else, for a step with a template, the first 60      *)
(* characters of the template; else, for a step with neither (an mcp step  *)
(* without description), the generic text 'No description'.                *)
(***************************************************************************)
GenericFallback == Str(<<"No description">>)

C16_ThreeWayFallback ==
    (pc = "done" /\ req.op = "workflow-execute" /\ result.kind = "plan") =>
        \A k \in 1..Len(resolved.flattenedSteps) :
            LET step == resolved.flattenedSteps[k] IN
            result.entries[k].desc =
                IF "description" \in DOMAIN step THEN step.description
                ELSE IF "template" \in DOMAIN step
                     THEN Str(<<"substring(0,60)", step.template, "...">>)
                     ELSE GenericFallback

\* what the code does satisfy: the first two cases are as described, and a
\* step with neither description nor template displays 'undefined...'
C16_FallbackAsCoded ==
    (pc = "done" /\ req.op = "workflow-execute" /\ result.kind = "plan") =>
        \A k \in 1..Len(resolved.flattenedSteps) :
            LET step == resolved.flattenedSteps[k] IN
            /\ result.entries[k].desc # GenericFallback
            /\ result.entries[k].desc =
                  IF "description" \in DOMAIN step THEN step.description
                  ELSE IF "template" \in DOMAIN step
                       THEN Str(<<"substring(0,60)", step.template, "...">>)
                       ELSE Str(<<"undefined", "...">>)

(***************************************************************************)
(* C17: the plan echoes the data of the call and the expectedOutputs the   *)
(* workflow declares, unchanged: the Initial Data section is the JSON text *)
(* of exactly the value passed in, the Expected Final Outputs are the JSON *)
(* text of exactly the declared value ('Not specified' when none is        *)
(* declared); workflow-run echoes the data in the same way; and no step of *)
(* either handler changes the data value the caller passed in.             *)
(***************************************************************************)
\* the expectedOutputs written in the definition of the requested workflow
DeclaredOutputs ==
    LET definition == files[FileName(req.name, "json")].value IN
    IF "expectedOutputs" \in DOMAIN definition
    THEN definition.expectedOutputs
    ELSE Undefined

C17_Echo ==
    /\ (pc = "done" /\ req.op = "workflow-execute") =>
          /\ result.kind = "plan"
          /\ result.initialData = EchoOfInputs
          /\ result.expectedOutputs =
                IF DeclaredOutputs = Undefined
                THEN Str(<<"Not specified">>)
                ELSE [text |-> "json", value |-> DeclaredOutputs]
    /\ (RunDone /\ RunLoadable /\ result.kind = "instruction") =>
          result.currentInputs = EchoOfInputs
    /\ (RunDone /\ RunLoadable /\ result.kind = "complete") =>
          result.finalOutputs = EchoOfInputs

\* the arguments of a call, the data among them, stay as the caller passed
\* them, and so does the store
C17_DataUntouched ==
    /\ pc # "idle" => req' = req
    /\ files' = files

C17_EchoWithoutMutation == []C17_Echo /\ [][C17_DataUntouched]_vars

\* a plan for data of two fields and a workflow that declares one output
C17_Witness ==
    /\ pc = "done" /\ req.op = "workflow-execute" /\ result.kind = "plan"
    /\ req.inputs = AdaGreeted
    /\ result.initialData = [text |-> "json", value |-> AdaGreeted]
    /\ DeclaredOutputs = Array(<<Str(<<"greeting">>)>>)
    /\ result.expectedOutputs = [text |-> "json", value |-> DeclaredOutputs]

(***************************************************************************)
(* C18: building the plan substitutes nothing and never fails because of   *)
(* the data: for every data value, whether it holds the fields that the    *)
(* {{field}} placeholders name or not (or is left out), the call returns   *)
(* a plan, and the payload of every step holds the template exactly as it  *)
(* is written in the definition, placeholders included.                    *)
(***************************************************************************)
\* the placeholders in a template
Placeholders(template) ==
    { template.str[i] : i \in { j \in 1..Len(template.str) :
          template.str[j] \in {"{{name}}", "{{greeting}}"} } }

C18_NoSubstitution ==
    (pc = "done" /\ req.op = "workflow-execute") =>
        /\ result.kind = "plan"
        /\ Len(result.steps) = Len(WrittenSteps(req.name))
        /\ \A k \in 1..Len(WrittenSteps(req.name)) :
              LET written == WrittenSteps(req.name)[k]
                  payload == result.steps[k].payload.value
              IN  "template" \in DOMAIN written =>
                     /\ "template" \in DOMAIN payload
                     /\ payload.template = written.template

\* the data has neither name nor greeting, and both steps of the plan hold
\* their placeholders
C18_Witness ==
    /\ pc = "done" /\ req.op = "workflow-execute" /\ result.kind = "plan"
    /\ req.inputs = EmptyObject
    /\ Len(result.steps) = 2
    /\ Placeholders(result.steps[1].payload.value.template) = {"{{name}}"}
    /\ Placeholders(result.steps[2].payload.value.template)
          = {"{{name}}", "{{greeting}}"}

(***************************************************************************)
(* What a call of workflow-execute returns when it runs alone on the       *)
(* store as it is: the resolution written as a function of the files       *)
(***************************************************************************)
\* the flattened steps of w, or the first error of the depth-first walk;
\* path holds the names of the workflows being resolved
RECURSIVE FlattenOn(_, _, _)
FlattenOn(fs, w, path) ==
    LET content == fs[FileName(w, "json")] IN
    IF w \in path THEN [error |-> [kind |-> "CircularDependency", workflow |-> w]]
    ELSE IF content = NoFile THEN [error |-> [kind |-> "NotFound", workflow |-> w]]
    ELSE IF content = Garbage THEN [error |-> [kind |-> "ParseError"]]
    ELSE IF content.value = JsonNull THEN [error |-> [kind |-> "TypeError"]]
    ELSE IF ~(/\ "steps" \in DOMAIN content.value
                /\ DOMAIN content.value.steps = {"array"})
    THEN [error |-> [kind |-> "InvalidDefinition", workflow |-> w]]
    ELSE
      LET steps == content.value.steps.array
          RECURSIVE UpTo(_)
          UpTo(i) ==
              IF i = 0 THEN [steps |-> << >>]
              ELSE
                LET before == UpTo(i - 1) IN
                IF "error" \in DOMAIN before THEN before
                ELSE IF steps[i].type # "workflow"
                THEN [steps |-> Append(before.steps,
                                       [_sourceWorkflow |-> w] @@ steps[i])]
                ELSE
                  LET sub == FlattenOn(fs, steps[i].workflow, path \cup {w}) IN
                  IF "error" \in DOMAIN sub THEN sub
                  ELSE [steps |-> before.steps \o
                          [k \in 1..Len(sub.steps) |->
                              [_sourceWorkflow |-> steps[i].workflow,
                               _parentDescription |-> steps[i].description]
                                  @@ sub.steps[k]]]
      IN UpTo(Len(steps))

\* the same against the present files
FlattenAlone(w, path) == FlattenOn(files, w, path)

\* the text the caller gets for these arguments
ExecuteOn(fs, name, inputs) ==
    LET flat == FlattenOn(fs, name, {}) IN
    IF "error" \in DOMAIN flat
    THEN [kind |-> "error", name |-> name, error |-> flat.error]
    ELSE PlanText(name, inputs,
                  ReturnValue(fs[FileName(name, "json")].value, flat.steps))

ExecuteAlone(name, inputs) == ExecuteOn(files, name, inputs)

(***************************************************************************)
(* C19: no definition is cached across calls.  When files are changed      *)
(* between two calls, the result of the later call is computed from the    *)
(* content the files have then: workflow-execute returns what the          *)
(* resolution of the present store gives, workflow-run what the present    *)
(* file of the workflow gives; and two calls with the same arguments on    *)
(* the same store content have the same result.                            *)
(***************************************************************************)
C19_FromPresentStore ==
    pc = "done" =>
        IF req.op = "workflow-execute"
        THEN result = ExecuteAlone(req.name, req.inputs)
        ELSE result = WorkflowRunHandler(files[FileName(req.name, "md")],
                                         req.name, req.step, req.inputs)

C19_FunctionOfArgumentsAndStore ==
    \A i, j \in 1..Len(log) :
        (log[i].req = log[j].req /\ log[i].files = log[j].files) =>
            log[i].result = log[j].result

C19_NoCache == C19_FromPresentStore /\ C19_FunctionOfArgumentsAndStore

\* the same call twice, a.json and b.json rewritten in between: the first
\* plan has the step of a, the second the step inlined from b
C19_Witness ==
    /\ pc = "done" /\ req.op = "workflow-execute"
    /\ Len(log) = 1
    /\ log[1].req = req
    /\ log[1].files # files
    /\ log[1].result.kind = "plan"
    /\ result.kind = "plan"
    /\ log[1].result.steps[1].payload.value._sourceWorkflow = "a"
    /\ result.steps[1].payload.value._sourceWorkflow = "b"

(***************************************************************************)
(* C20: resolutions whose store reads interleave in any way each return    *)
(* what they return when run alone on the same store: the result of every  *)
(* call, of the same or of different names, is the resolution of the store *)
(* written as a function of the files, so no call gets a                   *)
(* CircularDependency, or loses or gains a step, from another call.        *)
(***************************************************************************)
C20_AsIfAlone ==
    /\ pc = "done" => result = ExecuteAlone(req.name, req.inputs)
    /\ \A i \in 1..Len(log) :
          log[i].result = ExecuteAlone(log[i].req.name, log[i].req.inputs)

\* two resolutions of a = [workflow b] have both returned their plan; the
\* second started while the first waited for a.json (its visited set is the
\* second Set object), and each copied its set when it went into b
C20_Witness ==
    /\ pc = "done" /\ req.name = "a" /\ result.kind = "plan"
    /\ Len(log) = 1
    /\ log[1].req.name = "a" /\ log[1].result.kind = "plan"
    /\ Refs("a") = {"b"}
    /\ heap = << {"a"}, {"a"}, {"a", "b"}, {"a", "b"} >>

(***************************************************************************)
(* C21: an activation never modifies the visited set its caller supplied:  *)
(* the Set object handed to an activation as its third argument holds,     *)
(* after every step of that activation, exactly the names it held before.  *)
(* (Stated for the activations below the outermost one, whose set is       *)
(* supplied by a caller and not by the default argument.)                  *)
(***************************************************************************)
C21_SuppliedSetUntouched ==
    \A k \in 2..Len(stack) :
        (k <= Len(stack') /\ stack'[k].visited = stack[k].visited) =>
            heap'[stack[k].visited] = heap[stack[k].visited]

C21_ArgumentNotModified == [][C21_SuppliedSetUntouched]_vars

\* what the code does satisfy: the set an activation itself works with is
\* not changed while it waits for an activation it called, because the
\* call site hands over a copy
C21_OwnSetUntouched ==
    \A k \in 1..Len(stack) :
        (stack[k].at = "await" /\ k <= Len(stack')) =>
            heap'[stack[k].visited] = heap[stack[k].visited]

C21_CallSiteCopies == [][C21_OwnSetUntouched]_vars

(***************************************************************************)
(* C22: cycle detection is exact.  When every definition reachable from    *)
(* the root exists and has a steps array, the call ends with               *)
(* CircularDependency if and only if some workflow reachable from the root *)
(* references itself, directly or through other workflows; a cycle among   *)
(* workflows that the root does not reach, and a workflow referenced from  *)
(* several branches, never give that error.                                *)
(***************************************************************************)
EndedInCircular ==
    /\ result.kind = "error"
    /\ "kind" \in DOMAIN result.error
    /\ result.error.kind = "CircularDependency"

C22_CycleDetectionExact ==
    (pc = "done" /\ AllValid(Root)) =>
        /\ EndedInCircular <=> ~Acyclic(Root)
        /\ ~EndedInCircular => result.kind = "plan"

\* the root has a leaf and references b twice; c references itself, and the
\* root does not reach c: the call returns a plan
C22_Witness ==
    /\ pc = "done" /\ AllValid(Root)
    /\ Refs(Root) = {"b"}
    /\ Cardinality({ i \in 1..Len(WrittenSteps(Root)) :
                        WrittenSteps(Root)[i].type = "workflow" }) = 2
    /\ "c" \notin Reachable(Root)
    /\ OnCycle("c")
    /\ result.kind = "plan"

\* a reachable cycle that does not go through the root: a references b and
\* b references itself
C22_WitnessCycle ==
    /\ pc = "done" /\ AllValid(Root)
    /\ Refs(Root) = {"b"} /\ Refs("b") = {"b"}
    /\ EndedInCircular
    /\ result.error.workflow = "b"

(***************************************************************************)
(* C23: a definition saved by workflow-save under a name is stored where   *)
(* the engine reads definitions from: after a successful save of valid     *)
(* content under N, workflow-execute(N) returns the plan of exactly the    *)
(* steps of that content, not an error.                                    *)
(***************************************************************************)
\* the last answered call was a successful save under the name now asked for
SavedLast ==
    /\ log # << >>
    /\ log[Len(log)].req.op = "workflow-save"
    /\ log[Len(log)].req.name = req.name
    /\ log[Len(log)].result.kind = "saved"

SavedSteps == log[Len(log)].req.content.value.steps.array

C23_SavedIsExecuted ==
    (pc = "done" /\ req.op = "workflow-execute" /\ SavedLast) =>
        /\ result.kind = "plan"
        /\ Len(result.steps) = Len(SavedSteps)
        /\ \A k \in 1..Len(SavedSteps) :
              Untag(result.steps[k].payload.value) = SavedSteps[k]

\* what the code does satisfy: workflow-run, which reads the .md file,
\* hands out the first step of the saved content
C23_SavedIsRun ==
    (pc = "done" /\ req.op = "workflow-run" /\ SavedLast) =>
        /\ result.kind = "instruction"
        /\ result.stepDefinition = [text |-> "json", value |-> SavedSteps[1]]

(***************************************************************************)
(* PromptManager: the prompt templates of the prompts directory, the tools *)
(* registered for them and the usage statistics.  In these specifications  *)
(* `files` holds the prompts directory and the statistics file, and `heap` *)
(* holds the two Map objects of the PromptManager and the tool registry of *)
(* the server.  File times (createdAt, updatedAt, firstUsed, lastUsed),    *)
(* response times, author, version and tags are not modelled, nor are the  *)
(* tools prompt_list, prompt_dashboard and prompt_view_dashboard.          *)
(***************************************************************************)
\* number of tool calls of one run
MaxPromptCalls == 3

\* a Map object: its entries in insertion order
MapHas(map, key) == \E i \in 1..Len(map) : map[i].key = key
MapGet(map, key) ==
    IF MapHas(map, key)
    THEN map[CHOOSE i \in 1..Len(map) : map[i].key = key].value
    ELSE Undefined
MapSet(map, key, value) ==
    IF MapHas(map, key)
    THEN [map EXCEPT ![CHOOSE i \in 1..Len(map) : map[i].key = key].value = value]
    ELSE Append(map, [key |-> key, value |-> value])

\* names are texts given by their characters
NameA == Str(<<"a">>)
Name5 == Str(<<"5">>)

\* /^[a-zA-Z0-9_-]+$/ over the characters used here
NameRegexTest(name) ==
    /\ Len(name.str) >= 1
    /\ \A i \in 1..Len(name.str) : name.str[i] \in {"a", "b", "c", "5", "_", "-"}

\* join(promptsDir, `${name}.${ext}`)
PromptFile(name, ext) == <<"prompts", name, ext>>
\* join(projectPath, 'prompt-usage-stats.json')
UsageStatsFile == <<".", Str(<<"prompt-usage-stats">>), "json">>

\* readdirSync(promptsDir): the directory in name order
ReadDir ==
    << PromptFile(Name5, "json"), PromptFile(Name5, "yaml"),
       PromptFile(Name5, "yml"),
       PromptFile(NameA, "json"), PromptFile(NameA, "yaml"),
       PromptFile(NameA, "yml") >>

\* the messages a prompt file may hold: one user message, or a null element
GoodMessages ==
    Array(<< [role |-> "user",
              content |-> [type |-> "text", text |-> Str(<<"hello">>)]] >>)
NullMessages == Array(<<JsonNull>>)
PlainDescription == Str(<<"plain">>)
\* a description that is not a YAML plain scalar
MappingDescription == Str(<<"k", ": ", "v">>)

PromptObject(name, description, messages) ==
    [name |-> name, description |-> description, arguments |-> Array(<< >>),
     messages |-> messages]

\* a YAML text: the lines `name: ...`, `description: ...`, `arguments:` and
\* `messages:` with each text as a literal block; promptToYaml writes them
YamlFile(name, description, messages) ==
    [text |-> "yaml", name |-> name, description |-> description,
     messages |-> messages]
promptToYaml(prompt) ==
    YamlFile(prompt.name, prompt.description, prompt.messages)

\* how yaml.load resolves a plain scalar: a digit is a number (the texts of
\* digits used here have one character)
YamlScalar(v) ==
    IF v = Undefined THEN Undefined
    ELSE IF Len(v.str) = 1 /\ \E d \in 1..Len(Numeral) : Numeral[d] = v.str[1]
    THEN Num(CHOOSE d \in 1..Len(Numeral) : Numeral[d] = v.str[1])
    ELSE v

\* the messages as yaml.load gives them: a literal block `text: |` keeps
\* the final line break
YamlMessages(messages) ==
    IF ~IsArray(messages) THEN messages
    ELSE Array([i \in 1..Len(messages.array) |->
                  IF Nullish(messages.array[i]) THEN messages.array[i]
                  ELSE [messages.array[i] EXCEPT
                           !.content.text = Str(@.str \o <<"\n">>)]])

\* yaml.load / JSON.parse of a prompt file: the object, or a throw
LoadThrows(content) ==
    \/ content.text = "garbage"
    \/ content.text = "yaml" /\ content.description = MappingDescription
LoadedObject(content) ==
    IF content.text = "json" THEN JSONParse(content)
    ELSE [name |-> YamlScalar(content.name),
          description |-> content.description,
          arguments |-> Array(<< >>),
          messages |-> YamlMessages(content.messages)]

\* loadPrompts: clear the Map, then set every file that parses and has a name
RECURSIVE LoadFrom(_, _, _)
LoadFrom(fs, i, map) ==
    IF i > Len(ReadDir) THEN map
    ELSE LET content == fs[ReadDir[i]] IN
         IF content = NoFile \/ LoadThrows(content)
         THEN LoadFrom(fs, i + 1, map)
         ELSE IF ~Truthy(LoadedObject(content).name)
         THEN LoadFrom(fs, i + 1, map)
         ELSE LoadFrom(fs, i + 1,
                  MapSet(map, LoadedObject(content).name,
                         LoadedObject(content)))
loadPrompts(fs) == LoadFrom(fs, 1, << >>)

\* the objects held by the process
loadedPrompts == heap[1]
usageStats == heap[2]
registeredTools == heap[3]

\* getPrompt
getPrompt(name) == MapGet(loadedPrompts, name)

\* one answered tool call: its arguments, the files before and after it and
\* its result
Answered(request, after, answer) ==
    [req |-> request, before |-> files, files |-> after, result |-> answer]

\* savePrompt: write `${name}.yaml`
savePrompt(fs, prompt) ==
    [fs EXCEPT ![PromptFile(prompt.name, "yaml")] = promptToYaml(prompt)]

\* what a client may submit
Submissions ==
    { [name |-> NameA, description |-> PlainDescription, arguments |-> Undefined],
      [name |-> Name5, description |-> PlainDescription, arguments |-> Undefined],
      [name |-> Str(<<"a", " ", "b">>), description |-> PlainDescription,
       arguments |-> Undefined],
      [name |-> NameA, description |-> MappingDescription, arguments |-> Undefined],
      [name |-> NameA, description |-> PlainDescription, arguments |-> Garbage] }

\* the handler of prompt_submit
PromptSubmit(args) ==
    LET request == [op |-> "prompt_submit", name |-> args.name,
                    description |-> args.description,
                    arguments |-> args.arguments]
        newPrompt == PromptObject(args.name, args.description, GoodMessages)
        saved == savePrompt(files, newPrompt)
        reject(kind) ==
            /\ result' = [kind |-> kind, name |-> args.name]
            /\ log' = Append(log, Answered(request, files, result'))
            /\ UNCHANGED <<files, heap>>
    IN
    /\ pc = "idle"
    /\ Len(log) < MaxPromptCalls
    /\ req' = request
    /\ IF ~NameRegexTest(args.name) THEN reject("name-format")
       ELSE IF getPrompt(args.name) # Undefined THEN reject("exists")
       ELSE IF args.arguments # Undefined /\ ~ParseOk(args.arguments)
       THEN reject("arguments-format")
       ELSE /\ files' = saved
            /\ IF args.name \in registeredTools
               THEN \* server.tool throws for a registered name
                    /\ heap' = <<loadPrompts(saved), usageStats, registeredTools>>
                    /\ result' = [kind |-> "submit-error", name |-> args.name]
               ELSE /\ heap' = <<loadPrompts(saved), usageStats,
                                 registeredTools \cup {args.name}>>
                    /\ result' = [kind |-> "submitted", name |-> args.name]
            /\ log' = Append(log, Answered(request, saved, result'))
    /\ UNCHANGED <<stack, pc, thrown, resolved, parked>>

\* new Date().toISOString().split('T')[0]
Days == {"d1", "d2"}

\* the record of a name that was never used
NewStats(name) ==
    [name |-> name, totalCalls |-> 0, successCalls |-> 0, failedCalls |-> 0,
     dailyUsage |-> EmptyObject]

\* stats.dailyUsage[today] = (stats.dailyUsage[today] || 0) + 1
DailyIncrement(dailyUsage, today) ==
    [d \in DOMAIN dailyUsage \cup {today} |->
        IF d = today
        THEN (IF today \in DOMAIN dailyUsage THEN dailyUsage[today] ELSE 0) + 1
        ELSE dailyUsage[d]]

\* a recordUsage that counts a failed call as a call only
recordUsageTotalOnly(stats, name, success, today) ==
    LET old == IF MapHas(stats, name) THEN MapGet(stats, name)
               ELSE NewStats(name)
    IN MapSet(stats, name,
              [old EXCEPT !.totalCalls = @ + 1,
                          !.successCalls = IF success THEN @ + 1 ELSE @,
                          !.dailyUsage = DailyIncrement(@, today)])

\* recordUsage: the Map after the call
recordUsage(stats, name, success, today) ==
    LET old == IF MapHas(stats, name) THEN MapGet(stats, name)
               ELSE NewStats(name)
    IN MapSet(stats, name,
              [old EXCEPT !.totalCalls = @ + 1,
                          !.successCalls = IF success THEN @ + 1 ELSE @,
                          !.failedCalls = IF success THEN @ ELSE @ + 1,
                          !.dailyUsage = DailyIncrement(@, today)])

\* saveUsageStats: JSON.stringify(Array.from(usageStats.values()))
saveUsageStats(fs, stats) ==
    [fs EXCEPT ![UsageStatsFile] =
        JsonText(Array([i \in 1..Len(stats) |-> stats[i].value]))]

\* loadUsageStats: the Map read back from the file, the Map as it is when
\* the file is absent or does not parse
RECURSIVE StatsFrom(_, _, _)
StatsFrom(array, i, map) ==
    IF i > Len(array) THEN map
    ELSE StatsFrom(array, i + 1, MapSet(map, array[i].name, array[i]))
loadUsageStats(fs, stats) ==
    IF fs[UsageStatsFile] = NoFile \/ ~ParseOk(fs[UsageStatsFile]) THEN stats
    ELSE StatsFrom(JSONParse(fs[UsageStatsFile]).array, 1, << >>)

\* the text of the user messages, joined and trimmed (no argument is passed,
\* so no placeholder is replaced)
RECURSIVE JoinTexts(_)
JoinTexts(messages) ==
    IF messages = << >> THEN << >>
    ELSE (IF messages[1].role = "user"
          THEN messages[1].content.text.str ELSE << >>)
         \o JoinTexts(Tail(messages))
RECURSIVE Trim(_)
Trim(parts) ==
    IF parts # << >> /\ parts[Len(parts)] = "\n"
    THEN Trim(SubSeq(parts, 1, Len(parts) - 1))
    ELSE parts

\* executePrompt: the result, which says whether the call is recorded as a
\* success; msg.role on a null element of messages throws inside the try
executePrompt(name) ==
    LET prompt == getPrompt(name) IN
    IF prompt = Undefined
    THEN [success |-> FALSE, error |-> "not found"]
    ELSE IF ~Truthy(Get(prompt, "messages")) \/ ~IsArray(prompt.messages)
    THEN [success |-> FALSE, error |-> "invalid messages"]
    ELSE IF \E i \in 1..Len(prompt.messages.array) :
                Nullish(prompt.messages.array[i])
    THEN [success |-> FALSE, error |-> "thrown"]
    ELSE [success |-> TRUE,
          content |-> Str(Trim(JoinTexts(prompt.messages.array)))]

\* the handler of the tool registered for a prompt: executePrompt, which
\* records the call and saves the statistics
PromptTool(name, today) ==
    LET request == [op |-> "executePrompt", name |-> name]
        answer == executePrompt(name)
        stats == recordUsage(usageStats, name, answer.success, today)
        saved == saveUsageStats(files, stats)
    IN
    /\ pc = "idle"
    /\ Len(log) < MaxPromptCalls
    /\ name \in registeredTools
    /\ req' = request
    /\ result' = answer
    /\ files' = saved
    /\ heap' = <<loadedPrompts, stats, registeredTools>>
    /\ log' = Append(log, Answered(request, saved, answer))
    /\ UNCHANGED <<stack, pc, thrown, resolved, parked>>

\* prompt_usage_stats: generateUsageStatsSummary reads the statistics file
\* again
PromptUsageStats ==
    LET request == [op |-> "prompt_usage_stats"]
        stats == loadUsageStats(files, usageStats)
        answer == [kind |-> "summary",
                   totalPrompts |-> Len(loadedPrompts),
                   promptStats |-> [i \in 1..Len(stats) |-> stats[i].value]]
    IN
    /\ pc = "idle"
    /\ Len(log) < MaxPromptCalls
    /\ req' = request
    /\ result' = answer
    /\ heap' = <<loadedPrompts, stats, registeredTools>>
    /\ log' = Append(log, Answered(request, files, answer))
    /\ UNCHANGED <<files, stack, pc, thrown, resolved, parked>>

\* registerPromptTools: the statistics file is absent, the directory is
\* loaded and one tool is registered for each loaded prompt.  a.yaml is
\* absent, unparsable, or holds a prompt named a (with messages, without,
\* with a null message), a prompt named b, or a prompt without a name;
\* a.json is absent or holds a prompt named c
InitPrompts ==
    /\ \E yaml \in { NoFile, Garbage,
                     YamlFile(NameA, PlainDescription, GoodMessages),
                     YamlFile(NameA, PlainDescription, Undefined),
                     YamlFile(NameA, PlainDescription, NullMessages),
                     YamlFile(Str(<<"b">>), PlainDescription, GoodMessages),
                     YamlFile(Undefined, PlainDescription, GoodMessages) } :
       \E json \in { NoFile,
                     JsonText(PromptObject(Str(<<"c">>), PlainDescription,
                                           GoodMessages)) } :
          files = [p \in { ReadDir[i] : i \in 1..Len(ReadDir) }
                            \cup {UsageStatsFile} |->
                      IF p = PromptFile(NameA, "yaml") THEN yaml
                      ELSE IF p = PromptFile(NameA, "json") THEN json
                      ELSE NoFile]
    /\ heap = << loadPrompts(files), << >>,
                 { loadPrompts(files)[i].key :
                      i \in 1..Len(loadPrompts(files)) } >>
    /\ stack = << >>
    /\ pc = "idle"
    /\ req = Undefined
    /\ thrown = Undefined
    /\ resolved = Undefined
    /\ result = Undefined
    /\ log = << >>
    /\ parked = << >>

NextPrompts ==
    \/ \E args \in Submissions : PromptSubmit(args)
    \/ \E name \in registeredTools, today \in Days : PromptTool(name, today)
    \/ PromptUsageStats

SpecPrompts == InitPrompts /\ [][NextPrompts]_vars

(***************************************************************************)
(* C24: prompt_submit rejects a submission whenever a prompt definition    *)
(* already exists under the submitted name, in memory or as a file of the  *)
(* prompts directory, and an accepted submission never overwrites or       *)
(* replaces a prompt definition file that existed before it.               *)
(***************************************************************************)
IsSubmit(k) == log[k].req.op = "prompt_submit"
Accepted(k) == IsSubmit(k) /\ log[k].result.kind = "submitted"

\* a file of the prompts directory carries the name
FileUnder(fs, name) ==
    \E ext \in {"json", "yaml", "yml"} :
        /\ PromptFile(name, ext) \in DOMAIN fs
        /\ fs[PromptFile(name, ext)] # NoFile

C24_DuplicateRejected ==
    \A k \in 1..Len(log) :
        Accepted(k) =>
            /\ ~MapHas(loadPrompts(log[k].before), log[k].req.name)
            /\ ~FileUnder(log[k].before, log[k].req.name)
            /\ \A i \in 1..Len(ReadDir) :
                  log[k].before[ReadDir[i]] # NoFile =>
                      log[k].files[ReadDir[i]] = log[k].before[ReadDir[i]]

\* what the code does satisfy: a name that is a key of the Map of loaded
\* prompts is rejected and no file changes
C24_LoadedNameRejected ==
    \A k \in 1..Len(log) :
        (IsSubmit(k) /\ NameRegexTest(log[k].req.name)
           /\ MapHas(loadPrompts(log[k].before), log[k].req.name)) =>
            /\ log[k].result.kind = "exists"
            /\ log[k].files = log[k].before

\* a.yaml held the prompt named b; the submission of a was accepted, a.yaml
\* was replaced and b is no longer loaded
C24_Overwritten ==
    \E k \in 1..Len(log) :
        /\ Accepted(k)
        /\ log[k].req.name = NameA
        /\ log[k].before[PromptFile(NameA, "yaml")]
              = YamlFile(Str(<<"b">>), PlainDescription, GoodMessages)
        /\ ~MapHas(loadPrompts(log[k].files), Str(<<"b">>))

(***************************************************************************)
(* C30: after any sequence of executePrompt calls (successful, prompt not  *)
(* found, invalid messages, or throwing), every usage-statistics record    *)
(* has totalCalls = successCalls + failedCalls, totalCalls equal to the    *)
(* number of executePrompt calls made for that name, and the counts of its *)
(* dailyUsage adding up to totalCalls.                                     *)
(***************************************************************************)
\* the executePrompt calls made for a name
CallsFor(name) ==
    { k \in 1..Len(log) :
        log[k].req.op = "executePrompt" /\ log[k].req.name = name }

RECURSIVE DailySum(_)
DailySum(dailyUsage) ==
    IF DOMAIN dailyUsage = {} THEN 0
    ELSE LET day == CHOOSE d \in DOMAIN dailyUsage : TRUE IN
         dailyUsage[day]
           + DailySum([d \in DOMAIN dailyUsage \ {day} |-> dailyUsage[d]])

C30_UsageStatsConsistent ==
    /\ \A i \in 1..Len(usageStats) :
          LET stats == usageStats[i].value IN
          /\ stats.totalCalls = stats.successCalls + stats.failedCalls
          /\ stats.totalCalls = Cardinality(CallsFor(usageStats[i].key))
          /\ DailySum(stats.dailyUsage) = stats.totalCalls
    /\ \A k \in 1..Len(log) :
          log[k].req.op = "executePrompt" => MapHas(usageStats, log[k].req.name)

\* one name was called with success on one day and, after its prompt was
\* replaced on disk, without success on another day
C30_Witness ==
    \E i \in 1..Len(usageStats) :
        /\ usageStats[i].value.successCalls = 1
        /\ usageStats[i].value.failedCalls = 1
        /\ DOMAIN usageStats[i].value.dailyUsage = Days
        /\ result = [success |-> FALSE, error |-> "not found"]

\* three calls of a prompt without a messages array, all on one day
C30_WitnessInvalid ==
    \E i \in 1..Len(usageStats) :
        /\ usageStats[i].value.failedCalls = 3
        /\ usageStats[i].value.dailyUsage = [d \in {"d1"} |-> 3]
        /\ result = [success |-> FALSE, error |-> "invalid messages"]

\* a call that threw inside the try block is one failed call
C30_WitnessThrown ==
    \E i \in 1..Len(usageStats) :
        /\ usageStats[i].value.failedCalls = 2
        /\ usageStats[i].value.totalCalls = 2
        /\ result = [success |-> FALSE, error |-> "thrown"]

(***************************************************************************)
(* C25: in every successful result of the resolution of a root, a          *)
(* flattened step is tagged _sourceWorkflow = root if and only if it is a  *)
(* direct (not inlined) step of the root, so that the plan shows the       *)
(* origin annotation exactly on the steps inlined from a sub-workflow.     *)
(***************************************************************************)
\* for each position of the expansion of w: TRUE when the step is written
\* in the steps array of w itself
DirectFlags(w) ==
    LET steps == WrittenSteps(w)
        Piece(i) ==
            IF steps[i].type = "workflow"
            THEN [k \in 1..Len(Expansion(steps[i].workflow,
                                         Cardinality(WorkflowNames))) |-> FALSE]
            ELSE << TRUE >>
        RECURSIVE Concat(_)
        Concat(i) == IF i = 0 THEN << >> ELSE Concat(i - 1) \o Piece(i)
    IN Concat(Len(steps))

C25_RootTagIffDirect ==
    (pc = "done" /\ req.op = "workflow-execute" /\ result.kind = "plan") =>
        LET flat == resolved.flattenedSteps
            direct == DirectFlags(Root)
        IN  /\ Len(direct) = Len(flat)
            /\ Len(result.entries) = Len(flat)
            /\ \A k \in 1..Len(flat) :
                  k \in DOMAIN direct /\ k \in DOMAIN result.entries =>
                  /\ (flat[k]._sourceWorkflow = Root) <=> direct[k]
                  /\ (result.entries[k].source = Str(<< >>)) <=> direct[k]

\* the root has a leaf and a reference to b, b references c: the plan has a
\* direct step without annotation and a step from two levels down with one
C25_Witness ==
    /\ pc = "done" /\ req.op = "workflow-execute" /\ result.kind = "plan"
    /\ Refs(Root) = {"b"} /\ Refs("b") = {"c"}
    /\ \E j, k \in 1..Len(result.entries) :
          /\ result.entries[j].source = Str(<< >>)
          /\ resolved.flattenedSteps[j]._sourceWorkflow = Root
          /\ result.entries[k].source = Str(<<" (from ", "b", ")">>)
          /\ Origin(resolved.flattenedSteps[k]) = "c"

(***************************************************************************)
(* C26: the resolution is all-or-nothing.  If a workflow visited by the    *)
(* depth-first expansion is absent, unparsable, invalid or closes a cycle, *)
(* the whole resolution fails with the first such error in depth-first     *)
(* left-to-right order, and no partly flattened sequence is returned or    *)
(* used for a plan.                                                        *)
(***************************************************************************)
C26_AllOrNothing ==
    (pc \in {"catch", "done"} /\ req.op = "workflow-execute") =>
        LET flat == FlattenAlone(req.name, {}) IN
        IF "error" \in DOMAIN flat
        THEN /\ thrown = flat.error
             /\ resolved = Undefined
             /\ stack = << >>
             /\ pc = "done" =>
                   /\ result.kind = "error"
                   /\ result.error = flat.error
                   /\ "steps" \notin DOMAIN result
        ELSE /\ thrown = Undefined
             /\ resolved # Undefined
             /\ pc = "done"
             /\ result.kind = "plan"
             /\ "flattenedSteps" \in DOMAIN resolved
             /\ resolved.flattenedSteps = flat.steps

\* the root references b and then c; b.json is not JSON and c.json is
\* absent: the error is the one of b
C26_Witness ==
    /\ pc = "done" /\ req.op = "workflow-execute"
    /\ Len(WrittenSteps(Root)) = 2
    /\ WrittenSteps(Root)[1].type = "workflow"
    /\ WrittenSteps(Root)[1].workflow = "b"
    /\ WrittenSteps(Root)[2].type = "workflow"
    /\ WrittenSteps(Root)[2].workflow = "c"
    /\ files[FileName("b", "json")] = Garbage
    /\ files[FileName("c", "json")] = NoFile
    /\ result.kind = "error"
    /\ result.error = ParseError

\* the root has a leaf and a reference to b, b has a leaf and a reference to
\* the absent c: two steps were flattened when the resolution failed
C26_WitnessPartial ==
    /\ pc = "done" /\ req.op = "workflow-execute"
    /\ Len(WrittenSteps(Root)) = 2 /\ Len(WrittenSteps("b")) = 2
    /\ WrittenSteps(Root)[1].type # "workflow"
    /\ WrittenSteps(Root)[2].type = "workflow"
    /\ WrittenSteps(Root)[2].workflow = "b"
    /\ WrittenSteps("b")[1].type # "workflow"
    /\ WrittenSteps("b")[2].type = "workflow"
    /\ WrittenSteps("b")[2].workflow = "c"
    /\ files[FileName("c", "json")] = NoFile
    /\ result.kind = "error"
    /\ result.error = NotFoundError("c")
    /\ resolved = Undefined

(***************************************************************************)
(* C27: when a workflow-save of a sub-workflow runs between the reads of   *)
(* one resolution, the successful result of the resolution is still the    *)
(* flattening of the root against one snapshot of the store, the one       *)
(* before or the one after the save; in particular the two inlined copies  *)
(* of a sub-workflow that the root references twice are identical.         *)
(***************************************************************************)
\* the stores there have been: the present one, the ones the answered calls
\* left, and for each answered save the stores it can have started from
SavesAnswered ==
    { i \in 1..Len(log) : log[i].req.op = "workflow-save" }

Snapshots ==
    {files} \cup { log[i].files : i \in 1..Len(log) }
        \cup { [log[i].files EXCEPT ![log[i].result.fileName] = c] :
                  i \in SavesAnswered, c \in { NoFile } \cup SaveContents("b") }

\* a plan is the flattening of the root against one of the snapshots
OfOneSnapshot(request, plan) ==
    \E fs \in Snapshots : plan = ExecuteOn(fs, request.name, request.inputs)

\* when both steps of the root reference the same workflow, the two halves
\* of the plan hold the same definitions
CopiesIdentical(plan) ==
    (/\ Len(WrittenSteps(Root)) = 2
     /\ WrittenSteps(Root)[1].type = "workflow"
     /\ WrittenSteps(Root)[2].type = "workflow"
     /\ WrittenSteps(Root)[1].workflow = WrittenSteps(Root)[2].workflow) =>
        \E n \in 0..Len(plan.steps) :
            /\ Len(plan.steps) = 2 * n
            /\ \A k \in 1..n :
                  Untag(plan.steps[k].payload.value)
                      = Untag(plan.steps[n + k].payload.value)

C27_WitnessPlan ==
    /\ pc = "done" /\ req.op = "workflow-execute" /\ result.kind = "plan"
    /\ Refs(Root) = {"b"} /\ Len(WrittenSteps(Root)) = 2
    /\ WrittenSteps(Root)[1].type = "workflow"
    /\ Len(log) = 1
    /\ log[1].req.op = "workflow-save"
    /\ log[1].req.name = "b"
    /\ log[1].req.content # files[FileName("b", "json")]
    /\ Len(result.steps) = 2

(***************************************************************************)
(* C29: workflow-run returns an instruction only when 1 <= stepIndex <= N  *)
(* for the N top-level steps read in that call: the step definition of     *)
(* every instruction is an element of the steps array, never undefined,    *)
(* and a workflow with zero steps is answered with the completion notice.  *)
(***************************************************************************)
\* the step index of the request, after the default
RunIndex == Number(DefaultStep(req.step))

C29_InstructionInRange ==
    /\ (RunDone /\ result.kind = "instruction") =>
          /\ RunLoadable
          /\ IsNum(RunIndex)
          /\ RunIndex.num \in 1..Len(RunSteps)
          /\ result.stepDefinition # Undefined
          /\ result.stepDefinition
                = [text |-> "json", value |-> RunSteps[RunIndex.num]]
    /\ (RunDone /\ RunLoadable /\ RunSteps = << >>
          /\ ~Less(RunIndex, Num(1))) => result.kind = "complete"

\* what the code does satisfy: an instruction for a step argument that is a
\* number, over a steps array, holds the element at that index
C29_NumericInRange ==
    (RunDone /\ result.kind = "instruction" /\ RunLoadable /\ IsNum(RunIndex)) =>
        /\ RunIndex.num \in 1..Len(RunSteps)
        /\ result.stepDefinition
              = [text |-> "json", value |-> RunSteps[RunIndex.num]]

\* step 'abc' of a workflow of one step: an instruction without a step
\* definition, whose next step is not a number
C29_UndefinedStep ==
    /\ RunDone /\ RunLoadable
    /\ Len(RunSteps) = 1
    /\ req.step = Str(<<"abc">>)
    /\ result.kind = "instruction"
    /\ result.stepDefinition = Undefined
    /\ result.nextStep = NaN

\* step 1 of a definition whose steps is an object, not an array
C29_UndefinedStepOfObject ==
    /\ RunDone
    /\ files[FileName(req.name, "md")] = JsonText([steps |-> EmptyObject] @@ HeaderOf(req.name))
    /\ req.step = Str(<<"1">>)
    /\ result.kind = "instruction"
    /\ result.stepDefinition = Undefined

(***************************************************************************)
(* C28: for one definition content without workflow-type steps, held both  *)
(* where workflow-run and where workflow-execute read it, the two modes    *)
(* agree: the step definitions that workflow-run hands out at the indices  *)
(* 1..N are the flattened steps of the plan with the provenance tags       *)
(* removed, and workflow-run completes at index N + 1, N being the step    *)
(* count of the plan.                                                      *)
(***************************************************************************)
\* the name of the request has the same content, of leaf steps only, in its
\* .md and in its .json file
SameLeafContent ==
    /\ files[FileName(req.name, "md")] = files[FileName(req.name, "json")]
    /\ HasStepsArray(req.name)
    /\ \A i \in 1..Len(WrittenSteps(req.name)) :
          WrittenSteps(req.name)[i].type # "workflow"

\* what workflow-run answers for the name and the data of the request at
\* step k
RunAt(k) ==
    WorkflowRunHandler(files[FileName(req.name, "md")], req.name,
                       Str(<<Numeral[k]>>), req.inputs)

C28_ModesAgree ==
    (pc = "done" /\ req.op = "workflow-execute" /\ result.kind = "plan"
       /\ SameLeafContent /\ result.stepCount < Len(Numeral)) =>
        LET N == result.stepCount IN
        /\ N = Len(result.steps)
        /\ \A k \in 1..N :
              /\ RunAt(k).kind = "instruction"
              /\ RunAt(k).stepDefinition
                    = [text |-> "json",
                       value |-> Untag(result.steps[k].payload.value)]
              /\ RunAt(k).nextStep = Num(k + 1)
        /\ RunAt(N + 1).kind = "complete"
        /\ RunAt(N + 1).total = Num(N)

\* a plan of two steps; workflow-run hands out the second step at index 2
\* and completes at index 3
C28_Witness ==
    /\ pc = "done" /\ req.op = "workflow-execute" /\ result.kind = "plan"
    /\ SameLeafContent
    /\ result.stepCount = 2
    /\ RunAt(2).kind = "instruction"
    /\ RunAt(2).stepDefinition.value = WrittenSteps(req.name)[2]
    /\ RunAt(3).kind = "complete"

====
